---- MODULE Spec2Model ----
(***************************************************************************)
(* Sage - multi-LLM code review engine.                                    *)
(*                                                                         *)
(* Part 1: parseFindings of scripts/review.js.                             *)
(* Part 2: the provider adapters' review() retry loop                      *)
(*         (providers/anthropic.js, providers/openai.js,                   *)
(*          providers/google.js).                                          *)
(* Part 3: the orchestrator main() of scripts/review.js running against a  *)
(*         forge that holds the pull request's comments.                   *)
(***************************************************************************)
EXTENDS Integers, Sequences, FiniteSets, TLC

VARIABLES
    \* ---- one call of review() --------------------------------------
    variant,     \* which adapter class the call is made on
    thisModel,   \* this.model of the adapter
    options,     \* options.retries: <<>> when absent, <<n>> when given
    retries,     \* the destructured `retries` local of review()
    attempt,     \* the loop counter of review()
    rpc,         \* position inside review()
    inflight,    \* vendor requests issued and not yet settled
    now,         \* milliseconds of timer time elapsed in this call
    trace,       \* the call's events, oldest first
    result,      \* what review() returned or threw
    \* ---- one call of parseFindings() -------------------------------
    responseText,  \* the text handed to parseFindings (a token sequence)
    parsed,        \* <<>> before the call, <<findings>> after it
    \* ---- orchestrator and forge ------------------------------------
    CONFIG,      \* the configuration of the current run
    pc,          \* position inside main()
    run,         \* the locals and the observable effects of the current run
    forge,       \* the pull request's issue comments and inline reviews
    runsDone,    \* runs finished so far on this pull request
    \* ---- one call of a pure function -------------------------------
    call,        \* the function called and its arguments
    ret          \* <<>> before the call, <<value>> after it

reviewVars == <<variant, thisModel, options, retries, attempt, rpc, inflight, now, trace, result>>
parseVars  == <<responseText, parsed>>
mainVars   == <<CONFIG, pc, run, forge, runsDone>>
callVars   == <<call, ret>>
vars == <<variant, thisModel, options, retries, attempt, rpc, inflight, now, trace, result,
          responseText, parsed, CONFIG, pc, run, forge, runsDone, call, ret>>

(***************************************************************************)
(* Bounds                                                                  *)
(***************************************************************************)
MaxRetries == 4      \* largest options.retries explored
MaxElems == 3        \* longest JSON array in a response text
MaxRuns == 2         \* review runs made one after another on the pull request
MaxCalls == 3        \* method calls made on one provider object

(***************************************************************************)
(* Small helpers                                                           *)
(***************************************************************************)
RECURSIVE Pow2(_)
Pow2(n) == IF n = 0 THEN 1 ELSE 2 * Pow2(n - 1)

Last(s) == s[Len(s)]

Indices(s) == 1..Len(s)

(***************************************************************************)
(* Part 1. parseFindings(responseText)                                     *)
(*                                                                         *)
(* A response text is a sequence of tokens: runs of prose, the characters  *)
(* '[' ']' ',' and JSON values that are not arrays.  A JSON value records  *)
(* its kind and, for an object, which of the four mandatory properties it  *)
(* has and their values.                                                   *)
(***************************************************************************)
Tok(t) == [t |-> t, v |-> [kind |-> "none", has |-> {}, severity |-> "", file |-> "",
                           line |-> 0, title |-> ""]]

Prose == Tok("prose")
LB    == Tok("lb")
RB    == Tok("rb")
Comma == Tok("comma")

ValTok(v) == [t |-> "val", v |-> v]

Scalar(kind) ==
    [kind |-> kind, has |-> {}, severity |-> "", file |-> "", line |-> 0, title |-> ""]

ArrayValue == Scalar("arr")

MandatoryFields == {"severity", "file", "line", "title"}

Obj(has, sev, file, line, title) ==
    [kind |-> "obj", has |-> has, severity |-> sev, file |-> file, line |-> line,
     title |-> title]

Finding(sev, file, line, title) == Obj(MandatoryFields, sev, file, line, title)

\* f without property p (the property reads as undefined)
Without(f, p) ==
    [f EXCEPT !.has = f.has \ {p},
              !.severity = IF p = "severity" THEN "" ELSE f.severity,
              !.file     = IF p = "file" THEN "" ELSE f.file,
              !.line     = IF p = "line" THEN 0 ELSE f.line,
              !.title    = IF p = "title" THEN "" ELSE f.title]

\* responseText.match(/\[[\s\S]*\]/): leftmost '[' to the last ']' after it
FirstIndex(text, t) ==
    IF \E i \in Indices(text) : text[i].t = t
    THEN CHOOSE i \in Indices(text) :
            text[i].t = t /\ \A j \in 1..(i - 1) : text[j].t # t
    ELSE 0

LastIndex(text, t) ==
    IF \E i \in Indices(text) : text[i].t = t
    THEN CHOOSE i \in Indices(text) :
            text[i].t = t /\ \A j \in (i + 1)..Len(text) : text[j].t # t
    ELSE 0

JsonMatch(text) ==
    LET i == FirstIndex(text, "lb")
        j == LastIndex(text, "rb")
    IN  IF i > 0 /\ j > i THEN <<SubSeq(text, i, j)>> ELSE <<>>

\* JSON.parse on a token sequence
ParseFail == [ok |-> FALSE, next |-> 0, val |-> Scalar("none"), elems |-> <<>>]

ParseOk(next, val, elems) == [ok |-> TRUE, next |-> next, val |-> val, elems |-> elems]

RECURSIVE ParseValue(_, _), ParseItems(_, _, _)
ParseValue(toks, i) ==
    IF i > Len(toks) THEN ParseFail
    ELSE IF toks[i].t = "val" THEN ParseOk(i + 1, toks[i].v, <<>>)
    ELSE IF toks[i].t = "lb"
         THEN IF i + 1 <= Len(toks) /\ toks[i + 1].t = "rb"
              THEN ParseOk(i + 2, ArrayValue, <<>>)
              ELSE ParseItems(toks, i + 1, <<>>)
    ELSE ParseFail

ParseItems(toks, i, acc) ==
    LET r == ParseValue(toks, i)
    IN  IF ~r.ok THEN ParseFail
        ELSE IF r.next > Len(toks) THEN ParseFail
        ELSE IF toks[r.next].t = "comma" THEN ParseItems(toks, r.next + 1, Append(acc, r.val))
        ELSE IF toks[r.next].t = "rb" THEN ParseOk(r.next + 1, ArrayValue, Append(acc, r.val))
        ELSE ParseFail

JSONParse(toks) ==
    LET r == ParseValue(toks, 1)
    IN  IF r.ok /\ r.next = Len(toks) + 1 THEN r ELSE ParseFail

\* JavaScript truthiness of f.<p>
Truthy(f, p) ==
    /\ p \in f.has
    /\ CASE p = "severity" -> f.severity # ""
         [] p = "file"     -> f.file # ""
         [] p = "line"     -> f.line # 0
         [] p = "title"    -> f.title # ""

\* reading a property of null raises a TypeError
PropertyReadThrows(f) == f.kind = "null"

\* the predicate of findings.filter(...)
IsValidFinding(f) ==
    /\ Truthy(f, "severity") /\ Truthy(f, "file")
    /\ Truthy(f, "line") /\ Truthy(f, "title")

parseFindings(text) ==
    LET m == JsonMatch(text)
    IN  IF m = <<>> THEN <<>>
        ELSE LET findings == JSONParse(m[1])
             IN  IF ~findings.ok THEN <<>>                       \* catch: SyntaxError
                 ELSE IF findings.val.kind # "arr" THEN <<>>     \* !Array.isArray
                 ELSE IF \E k \in Indices(findings.elems) :
                            PropertyReadThrows(findings.elems[k])
                      THEN <<>>                                  \* catch: TypeError
                 ELSE SelectSeq(findings.elems, IsValidFinding)

\* ---- response texts explored ---------------------------------------
GoodA == Finding("HIGH", "a.js", 3, "x")
GoodB == Finding("LOW", "b.js", 7, "y")
GoodC == Finding("CRITICAL", "a.js", 9, "z")
\* a finding on a file named like a property every object inherits
GoodD == Finding("HIGH", "constructor", 1, "w")

ElemValues ==
    { GoodA, GoodB, GoodC,
      Without(GoodA, "severity"), Without(GoodA, "file"),
      Without(GoodA, "line"), Without(GoodA, "title"),
      Scalar("null"), Scalar("num"), Scalar("str"), ArrayValue }

ElemToks(v) == IF v.kind = "arr" THEN <<LB, RB>> ELSE <<ValTok(v)>>

\* the tokens of elements separated by commas
RECURSIVE Join(_)
Join(elems) ==
    IF elems = <<>> THEN <<>>
    ELSE IF Len(elems) = 1 THEN ElemToks(elems[1])
    ELSE ElemToks(elems[1]) \o <<Comma>> \o Join(Tail(elems))

ArrayText(elems) == <<LB>> \o Join(elems) \o <<RB>>

ElemSeqs == UNION { [1..n -> ElemValues] : n \in 0..MaxElems }

Surroundings == { <<>>, <<Prose>> }

\* prose around the array that itself holds '[' or ']' ("see [1]", "a[0]")
BracketedProse ==
    { <<>>, <<Prose>>, <<Prose, LB, Prose, RB, Prose>>, <<Prose, RB, Prose>>,
      <<Prose, LB, Prose>> }

\* arrays of complete findings
ValidSeqs == UNION { [1..n -> {GoodA, GoodB, GoodC}] : n \in 0..MaxElems }

ResponseTexts ==
    { pre \o ArrayText(es) \o post :
        pre \in Surroundings, es \in ElemSeqs, post \in Surroundings }
      \cup { pre \o ArrayText(es) \o post :
                pre \in BracketedProse, es \in ValidSeqs, post \in BracketedProse }
      \cup { <<>>, <<Prose>>, <<Prose, LB, Prose>>, <<RB, Prose, LB>>,
              <<Prose, ValTok(GoodA), Prose>>, <<LB, ValTok(GoodA), Comma, RB>> }

(***************************************************************************)
(* Part 2. review(): the retry loop shared by the three adapters           *)
(***************************************************************************)
Variants == {"Anthropic", "OpenAI", "Google"}

\* getName()-style label each adapter puts in front of its failure message
ProviderLabel(v) ==
    CASE v = "Anthropic" -> "Anthropic"
      [] v = "OpenAI"    -> "OpenAI"
      [] v = "Google"    -> "Google Gemini"

\* `retries = 3` in the destructuring of options
DefaultRetries == 3

DestructureRetries(opts) == IF opts = <<>> THEN DefaultRetries ELSE opts[1]

\* A usage object: the counters it has, and their values (0 when absent).
Usage(has, i, o, cw, cr) ==
    [has |-> has, input_tokens |-> i, output_tokens |-> o,
     cache_creation_input_tokens |-> cw, cache_read_input_tokens |-> cr]

NoUsage == Usage({}, 0, 0, 0, 0)

\* Vendor responses.  `blocks` is response.content (Anthropic),
\* response.choices (OpenAI) or candidates[0].content.parts (Google); the
\* text of a block is a token sequence.
TextBlock(t)  == [type |-> "text", text |-> t]
ThinkBlock(t) == [type |-> "thinking", text |-> t]

NoResponse == [blocks |-> <<>>, model |-> <<>>, usage |-> NoUsage]

ThreeFindings == <<Prose>> \o ArrayText(<<GoodA, GoodB, GoodC>>) \o <<Prose>>

VendorResponses ==
    { [blocks |-> <<TextBlock(ThreeFindings)>>,
       model  |-> <<"claude", "-", "sonnet", "-4-5-20250929">>,
       usage  |-> Usage({"input_tokens", "output_tokens", "cache_creation_input_tokens",
                         "cache_read_input_tokens"}, 1000, 500, 200, 100)],
      [blocks |-> <<ThinkBlock(<<Prose>>), TextBlock(<<Prose>>),
                    TextBlock(ArrayText(<<GoodB>>))>>,
       model  |-> <<"mystery", "-", "model">>,
       usage  |-> Usage({"input_tokens", "output_tokens"}, 1000, 500, 0, 0)],
      [blocks |-> <<>>,
       model  |-> <<"gpt", "-4", "-turbo", ":", "ft">>,
       usage  |-> Usage({"input_tokens", "output_tokens"}, 40, 0, 0, 0)],
      [blocks |-> <<TextBlock(ArrayText(<<GoodA, GoodD>>))>>,
       model  |-> <<"gpt", "-4">>,
       usage  |-> Usage({"input_tokens", "output_tokens"}, 40, 0, 0, 0)] }

VendorErrors == {"rate limited", "invalid x-api-key: sk-live-0123456789abcdefghij"}

\* whether a vendor message holds a secret-shaped substring
HasSecret(m) == m = "invalid x-api-key: sk-live-0123456789abcdefghij"

\* the usage a variant returns: Anthropic passes response.usage on, the
\* others copy the prompt and completion counters
NormalizeUsage(v, u) ==
    IF v = "Anthropic" THEN u
    ELSE Usage({"input_tokens", "output_tokens", "total_tokens"},
               u.input_tokens, u.output_tokens, 0, 0)

\* The text a variant extracts from a response.  Indexing an empty choices or
\* parts list raises a TypeError inside the try block.  Text is kept as the
\* sequence of its newline-joined pieces.
ExtractThrows(v, resp) ==
    /\ v \in {"OpenAI", "Google"}
    /\ resp.blocks = <<>>

ExtractText(v, resp) ==
    IF v = "Anthropic"
    THEN LET texts == SelectSeq(resp.blocks, LAMBDA b : b.type = "text")
         IN  [i \in 1..Len(texts) |-> texts[i].text]
    ELSE <<resp.blocks[1].text>>

Outcome(kind, text, usage, mdl, name, n, m) ==
    [kind |-> kind, text |-> text, usage |-> usage, model |-> mdl,
     name |-> name, retries |-> n, msg |-> m]

ReviewResponse(v, resp, configured) ==
    Outcome("response", ExtractText(v, resp), NormalizeUsage(v, resp.usage),
            IF v = "Google" THEN configured ELSE resp.model, "", 0, "")

\* review() falls off the end of its loop
Undefined == Outcome("undefined", <<>>, NoUsage, <<>>, "", 0, "")

\* new Error(`${label} API failed after ${retries} attempts: ${error.message}`)
ReviewError(v, n, m) == Outcome("error", <<>>, NoUsage, <<>>, ProviderLabel(v), n, m)

NoResult == Outcome("none", <<>>, NoUsage, <<>>, "", 0, "")

\* for (...; attempt <= retries; ...)
LoopCond(a, n) == a <= n

\* if (attempt === retries) throw ...
IsLastAttempt(a, n) == a = n

\* const delay = Math.pow(2, attempt) * 1000
BackoffDelayLinear(a) == 2 * a * 1000
BackoffDelay(a) == Pow2(a) * 1000

\* the try block runs to its `return` exactly when the request resolves and
\* the extraction does not raise
TryCompletesNever(v, resp) == FALSE
TryCompletes(v, resp) == ~ExtractThrows(v, resp)

Event(e, k, resp, m) == [e |-> e, k |-> k, t |-> now, resp |-> resp, msg |-> m, d |-> 0]

WaitEvent(k, delay) == [Event("wait", k, NoResponse, "") EXCEPT !.d = delay]

\* review() leaves the orchestrator and the parser alone
ReviewFrame == UNCHANGED <<responseText, parsed, CONFIG, pc, run, forge, runsDone, call, ret>>

\* entry of review(): destructure the options, then the loop's first test
RvEnter ==
    /\ rpc = "call"
    /\ retries' = DestructureRetries(options)
    /\ attempt' = 1
    /\ IF LoopCond(1, DestructureRetries(options))
       THEN rpc' = "try" /\ result' = result
       ELSE rpc' = "returned" /\ result' = Undefined
    /\ UNCHANGED <<variant, thisModel, options, inflight, now, trace>>
    /\ ReviewFrame

\* await this.client...create(...): the request leaves
RvSend ==
    /\ rpc = "try"
    /\ inflight' = inflight + 1
    /\ trace' = Append(trace, Event("req", attempt, NoResponse, ""))
    /\ rpc' = "await"
    /\ UNCHANGED <<variant, thisModel, options, retries, attempt, now, result>>
    /\ ReviewFrame

\* the catch block of one attempt, entered with error message m after the
\* vendor's event ev
RvCatch(ev, m) ==
    IF IsLastAttempt(attempt, retries)
    THEN /\ rpc' = "thrown"
         /\ result' = ReviewError(variant, retries, m)
         /\ trace' = Append(trace, ev)
    ELSE /\ rpc' = "sleep"
         /\ result' = result
         /\ trace' = Append(Append(trace, ev), WaitEvent(attempt, BackoffDelay(attempt)))

\* the request resolves with a vendor response
RvResolve ==
    /\ rpc = "await"
    /\ \E resp \in VendorResponses :
         /\ inflight' = inflight - 1
         /\ IF TryCompletes(variant, resp)
            THEN /\ rpc' = "returned"
                 /\ result' = ReviewResponse(variant, resp, thisModel)
                 /\ trace' = Append(trace, Event("resolved", attempt, resp, ""))
            ELSE RvCatch(Event("resolved", attempt, resp, "TypeError"), "TypeError")
    /\ UNCHANGED <<variant, thisModel, options, retries, attempt, now>>
    /\ ReviewFrame

\* the request rejects with a vendor error
RvReject ==
    /\ rpc = "await"
    /\ \E m \in VendorErrors :
         /\ inflight' = inflight - 1
         /\ RvCatch(Event("rejected", attempt, NoResponse, m), m)
    /\ UNCHANGED <<variant, thisModel, options, retries, attempt, now>>
    /\ ReviewFrame

\* the setTimeout of the backoff fires; attempt++ and the loop test
RvTimer ==
    /\ rpc = "sleep"
    /\ now' = now + Last(trace).d
    /\ attempt' = attempt + 1
    /\ IF LoopCond(attempt + 1, retries)
       THEN rpc' = "try" /\ result' = result
       ELSE rpc' = "returned" /\ result' = Undefined
    /\ UNCHANGED <<variant, thisModel, options, retries, inflight, trace>>
    /\ ReviewFrame

ReviewIdle ==
    /\ variant = "Anthropic" /\ thisModel = <<>> /\ options = <<>> /\ retries = 0 /\ attempt = 0
    /\ rpc = "idle" /\ inflight = 0 /\ now = 0 /\ trace = <<>> /\ result = NoResult

ParseIdle == responseText = <<>> /\ parsed = <<>>

MainIdle ==
    /\ CONFIG = <<>> /\ pc = "off" /\ run = <<>> /\ forge = <<>> /\ runsDone = 0

\* no pure function has been called
CallIdle == call = [fn |-> ""] /\ ret = <<>>

\* a call of review() on any adapter with any retries option
InitReview ==
    /\ variant \in Variants
    /\ thisModel = <<"configured">>
    /\ options \in {<<>>} \cup { <<n>> : n \in 0..MaxRetries }
    /\ retries = 0 /\ attempt = 0
    /\ rpc = "call" /\ inflight = 0 /\ now = 0 /\ trace = <<>> /\ result = NoResult
    /\ ParseIdle /\ MainIdle /\ CallIdle

NextReview == RvEnter \/ RvSend \/ RvResolve \/ RvReject \/ RvTimer

SpecReview == InitReview /\ [][NextReview]_vars

(***************************************************************************)
(* parseFindings as a call of its own                                      *)
(***************************************************************************)
ParseFrame ==
    UNCHANGED <<variant, thisModel, options, retries, attempt, rpc, inflight, now, trace,
                result, CONFIG, pc, run, forge, runsDone, call, ret>>

PfCall ==
    /\ parsed = <<>>
    /\ pc = "off"
    /\ parsed' = <<parseFindings(responseText)>>
    /\ UNCHANGED responseText
    /\ ParseFrame

InitParse ==
    /\ responseText \in ResponseTexts
    /\ parsed = <<>>
    /\ ReviewIdle /\ MainIdle /\ CallIdle

NextParse == PfCall

SpecParse == InitParse /\ [][NextParse]_vars

(***************************************************************************)
(* Part 3a. Pure helpers of the orchestrator                               *)
(***************************************************************************)
\* ---- strings: the case conversions of the names explored -----------
ToLowerCaseNone(str) == str
ToLowerCase(str) ==
    CASE str = "Google"    -> "google"
      [] str = "ANTHROPIC" -> "anthropic"
      [] str = "Gemini"    -> "gemini"
      [] str = "Claude"    -> "claude"
      [] str = "OpenAI"    -> "openai"
      [] str = "GPT"       -> "gpt"
      [] str = "Unknown"   -> "unknown"
      [] OTHER             -> str

ToUpperCase(str) ==
    CASE str = "medium" -> "MEDIUM"
      [] str = "high"   -> "HIGH"
      [] OTHER          -> str

\* length of the credential and model strings explored
StrLen(str) ==
    CASE str = ""      -> 0
      [] str = "short" -> 5
      [] OTHER         -> 20

\* ---- ProviderFactory -------------------------------------------------
getSupportedProviders == <<"anthropic", "openai", "google">>

getDefaultModels(name) ==
    CASE name = "anthropic" -> <<"claude", "-", "sonnet", "-4-5-20250929">>
      [] name = "openai"    -> <<"gpt", "-4", "-turbo", "-preview">>
      [] name = "google"    -> <<"gemini", "-", "1.5-", "pro">>

\* the value of an argument or environment variable that is not given
Unset == "<undefined>"

\* what createProvider gives: an adapter of class `variant` constructed with
\* `model`, or the Error thrown (its words, the provider name quoted in it
\* and the providers it lists)
Created(v, model) ==
    [ok |-> TRUE, variant |-> v, model |-> model, error |-> "", name |-> "",
     supported |-> <<>>]

FactoryError(text) ==
    [ok |-> FALSE, variant |-> "", model |-> <<>>, error |-> text, name |-> "",
     supported |-> <<>>]

\* `Unknown provider: ${providerName}. Supported: anthropic, openai, google`
UnknownProvider(providerName) ==
    [FactoryError("Unknown provider") EXCEPT
        !.name = providerName, !.supported = <<"anthropic", "openai", "google">>]

\* !apiKey, !options.projectId: the empty string and undefined are falsy
Missing(str) == str \in {"", Unset}

\* if (!options.projectId)
ProjectIdMissingNever(projectId) == FALSE
ProjectIdMissingAlways(projectId) == TRUE
ProjectIdMissing(projectId) == Missing(projectId)

\* model || '<literal>' of each case of the switch
ModelOrDefault(family, model) ==
    IF model # <<>> THEN model
    ELSE CASE family = "anthropic" -> <<"claude", "-", "sonnet", "-4-5-20250929">>
           [] family = "openai"    -> <<"gpt", "-4", "-turbo", "-preview">>
           [] family = "google"    -> <<"gemini", "-", "1.5-", "pro">>

createProviderKeyCheckedLast(providerName, apiKey, model, projectId) ==
    LET provider == ToLowerCase(providerName)
    IN  IF provider \notin {"anthropic", "claude", "openai", "gpt", "google", "gemini"}
        THEN UnknownProvider(providerName)
        ELSE IF provider \in {"google", "gemini"} /\ ProjectIdMissing(projectId)
             THEN FactoryError("Google provider requires projectId option")
        ELSE IF Missing(apiKey) THEN FactoryError("API key is required")
        ELSE Created(CASE provider \in {"anthropic", "claude"} -> "Anthropic"
                       [] provider \in {"openai", "gpt"} -> "OpenAI"
                       [] OTHER -> "Google", model)
createProvider(providerName, apiKey, model, projectId) ==
    IF Missing(apiKey) THEN FactoryError("API key is required")
    ELSE LET provider == ToLowerCase(providerName)
         IN  CASE provider \in {"anthropic", "claude"} ->
                    Created("Anthropic", ModelOrDefault("anthropic", model))
               [] provider \in {"openai", "gpt"} ->
                    Created("OpenAI", ModelOrDefault("openai", model))
               [] provider \in {"google", "gemini"} ->
                    IF ProjectIdMissing(projectId)
                    THEN FactoryError("Google provider requires projectId option")
                    ELSE Created("Google", ModelOrDefault("google", model))
               [] OTHER -> UnknownProvider(providerName)

\* ---- validateConfig --------------------------------------------------
\* Numbers read with parseInt are <<n>>, and <<>> when parseInt gave NaN.
IsNaN(num) == num = <<>>

\* parseInt(str) on the raw environment values explored: the leading integer
\* of the string, NaN when the string has none or is undefined
ParseInt(raw) ==
    CASE raw = "7"      -> <<7>>
      [] raw = "0"      -> <<0>>
      [] raw = "-3"     -> <<-3>>
      [] raw = "1.5"    -> <<1>>
      [] raw = "-1"     -> <<-1>>
      [] raw = "999"    -> <<999>>
      [] raw = "1000"   -> <<1000>>
      [] raw = "10000"  -> <<10000>>
      [] raw = "50000"  -> <<50000>>
      [] raw = "100000" -> <<100000>>
      [] raw = "100001" -> <<100001>>
      [] raw = "200000" -> <<200000>>
      [] raw = "200001" -> <<200001>>
      [] OTHER          -> <<>>

\* process.env.X || fallback
OrDefault(raw, fallback) == IF raw \in {"", Unset} THEN fallback ELSE raw

IsFalsy(cfg, field) ==
    CASE field = "provider"    -> cfg.provider = ""
      [] field = "apiKey"      -> cfg.apiKey \in {"", Unset}
      [] field = "githubToken" -> cfg.githubToken = ""
      [] field = "repository"  -> cfg.repository \in {"", Unset}
      [] field = "prNumber"    -> IsNaN(cfg.prNumber) \/ cfg.prNumber = <<0>>
      [] field = "baseBranch"  -> cfg.baseBranch = ""
      [] field = "workspace"   -> cfg.workspace = ""

RequiredFields ==
    <<"provider", "apiKey", "githubToken", "repository", "prNumber", "baseBranch",
      "workspace">>

\* /^[a-zA-Z0-9_.-]+\/[a-zA-Z0-9_.-]+$/ on the repository ids explored
RepositoryFormatOk(repository) == repository \in {"octo/repo"}

\* /^[a-zA-Z0-9_\-:.]+$/ on the credentials explored
ApiKeyCharsOk(apiKey) == apiKey # "key with spaces!!"

\* /^[a-z][a-z0-9-]{4,28}[a-z0-9]$/ on the project ids explored
ProjectIdFormatOk(projectId) == projectId \in {"my-project-1"}

\* includes('..') || !path.isAbsolute on the workspace paths explored
WorkspaceOk(workspace) == workspace \in {"/ws"}

InSeq(x, seq) == \E i \in Indices(seq) : seq[i] = x

MaxTokensLow  == 1000
MaxTokensHigh == 200000
ThinkingHigh  == 100000

\* the message of the Error validateConfig throws, "" when it returns
validateConfig(cfg) ==
    IF \E i \in Indices(RequiredFields) : IsFalsy(cfg, RequiredFields[i])
    THEN "Missing required configuration"
    ELSE IF cfg.prNumber[1] <= 0 THEN "Invalid PR number"
    ELSE IF ~RepositoryFormatOk(cfg.repository) THEN "Invalid repository format"
    ELSE IF ~InSeq(ToLowerCase(cfg.provider), getSupportedProviders)
         THEN "Unsupported provider"
    ELSE IF ~InSeq(ToUpperCase(cfg.severityThreshold), <<"CRITICAL", "HIGH", "MEDIUM", "LOW">>)
         THEN "Invalid severity threshold"
    ELSE IF ~IsNaN(cfg.maxTokens)
            /\ (cfg.maxTokens[1] < MaxTokensLow \/ cfg.maxTokens[1] > MaxTokensHigh)
         THEN "Invalid max-tokens"
    ELSE IF ~IsNaN(cfg.thinkingBudget)
            /\ (cfg.thinkingBudget[1] < 0 \/ cfg.thinkingBudget[1] > ThinkingHigh)
         THEN "Invalid thinking-budget"
    ELSE IF StrLen(cfg.apiKey) < 10 THEN "Invalid API key: too short"
    ELSE IF StrLen(cfg.apiKey) > 500 THEN "Invalid API key: too long"
    ELSE IF ~ApiKeyCharsOk(cfg.apiKey) THEN "Invalid API key: contains invalid characters"
    ELSE IF StrLen(cfg.githubToken) < 10 THEN "Invalid GitHub token: too short"
    ELSE IF ToLowerCase(cfg.provider) = "google" /\ cfg.googleProjectId \in {"", Unset}
         THEN "Google provider requires GOOGLE_PROJECT_ID environment variable"
    ELSE IF ToLowerCase(cfg.provider) = "google" /\ ~ProjectIdFormatOk(cfg.googleProjectId)
         THEN "Invalid Google Project ID format"
    ELSE IF ~WorkspaceOk(cfg.workspace) THEN "Invalid workspace path"
    ELSE ""

\* ---- filterFiles -------------------------------------------------------
\* the paths explored that some pattern of excludePatterns matches
MatchesExclude(file) == file \in {"package-lock.json", "dist/secrets.min.js"}

\* the paths explored that some pattern of sensitivePatterns matches
MatchesSensitive(file) == file \in {".env.production", "dist/secrets.min.js"}

\* the callback of files.filter: the sensitive patterns are tried first
FilterStepExcludeFirst(file) ==
    IF MatchesExclude(file) THEN "excluded"
    ELSE IF MatchesSensitive(file) THEN "sensitive"
    ELSE "kept"
FilterStep(file) ==
    IF MatchesSensitive(file) THEN "sensitive"
    ELSE IF MatchesExclude(file) THEN "excluded"
    ELSE "kept"

filterFiles(files) == SelectSeq(files, LAMBDA f : FilterStep(f) = "kept")

\* the files listed by the warning
sensitiveFiles(files) == SelectSeq(files, LAMBDA f : FilterStep(f) = "sensitive")

\* if (reviewableFiles.length === 0)
NoReviewableFilesNever(files) == FALSE
NoReviewableFiles(files) == Len(files) = 0

\* ---- filterBySeverity, countBySeverity ---------------------------------
\* SEVERITY_LEVELS[name]; <<>> stands for undefined
SEVERITY_LEVELS(name) ==
    CASE name = "CRITICAL" -> <<4>>
      [] name = "HIGH"     -> <<3>>
      [] name = "MEDIUM"   -> <<2>>
      [] name = "LOW"      -> <<1>>
      [] OTHER             -> <<>>

filterBySeverity(findings, cfg) ==
    LET threshold == SEVERITY_LEVELS(cfg.severityThreshold)
    IN  SelectSeq(findings,
                  LAMBDA f : LET lvl == SEVERITY_LEVELS(f.severity)
                                 severity == IF lvl = <<>> THEN 0 ELSE lvl[1]
                             IN  \* a comparison with undefined is false
                                 threshold # <<>> /\ severity >= threshold[1])

countBySeverity(findings, name) ==
    Len(SelectSeq(findings, LAMBDA f : f.severity = name))

\* ---- getModelPricing, calculateCost (scripts/review.js) ----------------
\* A model name is the sequence of its segments; rates are hundredths of a
\* dollar per million tokens, <<>> where the entry has no such rate.
Price(input, output, cw, cr) ==
    [input |-> input, output |-> output, cache_write |-> cw, cache_read |-> cr]

SonnetPrice == Price(300, 1500, <<600>>, <<30>>)
OpusPrice   == Price(1500, 7500, <<3000>>, <<150>>)
HaikuPrice  == Price(80, 400, <<160>>, <<8>>)

Gpt4TurboPrice == Price(1000, 3000, <<>>, <<>>)
Gpt4Price      == Price(3000, 6000, <<>>, <<>>)
Gpt35Price     == Price(50, 150, <<>>, <<>>)

Gemini15ProPrice   == Price(350, 1050, <<>>, <<>>)
Gemini15FlashPrice == Price(35, 105, <<>>, <<>>)
GeminiProPrice     == Price(50, 150, <<>>, <<>>)

NoPrice == <<>>

ANTHROPIC_PRICING(name) ==
    CASE name = <<"claude", "-", "sonnet", "-4-5-20250929">> -> <<SonnetPrice>>
      [] name = <<"claude", "-", "opus", "-4-5-20251101">>   -> <<OpusPrice>>
      [] name = <<"claude", "-", "haiku", "-4-5-20250101">>  -> <<HaikuPrice>>
      [] name = <<"claude", "-3-5-", "sonnet", "-20241022">> -> <<SonnetPrice>>
      [] name = <<"claude", "-3-5-", "haiku", "-20241022">>  -> <<HaikuPrice>>
      [] OTHER -> NoPrice

OPENAI_PRICING(name) ==
    CASE name = <<"gpt", "-4", "-turbo", "-preview">> -> <<Gpt4TurboPrice>>
      [] name = <<"gpt", "-4", "-turbo">>             -> <<Gpt4TurboPrice>>
      [] name = <<"gpt", "-4">>                       -> <<Gpt4Price>>
      [] name = <<"gpt", "-3.5", "-turbo">>           -> <<Gpt35Price>>
      [] OTHER -> NoPrice

GOOGLE_PRICING(name) ==
    CASE name = <<"gemini", "-", "1.5-", "pro">>   -> <<Gemini15ProPrice>>
      [] name = <<"gemini", "-", "1.5-", "flash">> -> <<Gemini15FlashPrice>>
      [] name = <<"gemini", "-", "pro">>           -> <<GeminiProPrice>>
      [] OTHER -> NoPrice

\* modelName.split(':')[0]
SplitColon(name) ==
    IF \E i \in Indices(name) : name[i] = ":"
    THEN SubSeq(name, 1, (CHOOSE i \in Indices(name) :
                             name[i] = ":" /\ \A j \in 1..(i - 1) : name[j] # ":") - 1)
    ELSE name

\* name.includes(sub)
Includes(name, sub) ==
    \E i \in 1..(Len(name) - Len(sub) + 1) : SubSeq(name, i, i + Len(sub) - 1) = sub

getModelPricing(modelName) ==
    LET normalizedName == SplitColon(modelName)
    IN  IF ANTHROPIC_PRICING(normalizedName) # NoPrice THEN ANTHROPIC_PRICING(normalizedName)[1]
        ELSE IF OPENAI_PRICING(normalizedName) # NoPrice THEN OPENAI_PRICING(normalizedName)[1]
        ELSE IF GOOGLE_PRICING(normalizedName) # NoPrice THEN GOOGLE_PRICING(normalizedName)[1]
        ELSE IF \/ Includes(normalizedName, <<"claude">>) \/ Includes(normalizedName, <<"opus">>)
                \/ Includes(normalizedName, <<"sonnet">>) \/ Includes(normalizedName, <<"haiku">>)
             THEN IF Includes(normalizedName, <<"opus">>) THEN OpusPrice
                  ELSE IF Includes(normalizedName, <<"haiku">>) THEN HaikuPrice
                  ELSE SonnetPrice
        ELSE IF Includes(normalizedName, <<"gpt">>)
             THEN IF Includes(normalizedName, <<"gpt", "-4", "-turbo">>) THEN Gpt4TurboPrice
                  ELSE IF Includes(normalizedName, <<"gpt", "-4">>) THEN Gpt4Price
                  ELSE Gpt35Price
        ELSE IF Includes(normalizedName, <<"gemini">>)
             THEN IF Includes(normalizedName, <<"flash">>) THEN Gemini15FlashPrice
                  ELSE Gemini15ProPrice
        ELSE SonnetPrice

\* the cost in units of 10^-8 dollars
calculateCost(usage, modelName) ==
    LET prices == getModelPricing(modelName)
    IN  usage.input_tokens * prices.input
        + usage.output_tokens * prices.output
        + (IF usage.cache_creation_input_tokens # 0 /\ prices.cache_write # <<>>
           THEN usage.cache_creation_input_tokens * prices.cache_write[1] ELSE 0)
        + (IF usage.cache_read_input_tokens # 0 /\ prices.cache_read # <<>>
           THEN usage.cache_read_input_tokens * prices.cache_read[1] ELSE 0)

\* cost.toFixed(4), in units of 10^-4 dollars
ToFixed4(cost) == (cost + 5000) \div 10000

\* ---- sanitizeErrorMessage ----------------------------------------------
\* The replacements, applied to the messages that occur: of these only the
\* vendor's echo of the x-api-key header matches a pattern (/x-api-key: [^\s]+/gi;
\* the key itself is not matched by /sk-[a-zA-Z0-9]{20,}/ because of its
\* second hyphen).
sanitizeErrorMessageVerbatim(message) ==
    IF message = "" THEN "Unknown error" ELSE message
sanitizeErrorMessage(message) ==
    IF message = "" THEN "Unknown error"
    ELSE IF message = "invalid x-api-key: sk-live-0123456789abcdefghij"
         THEN "invalid x-api-key: ***REDACTED***"
    ELSE message

(***************************************************************************)
(* Part 3b. main(): one review run after another on the same pull request  *)
(***************************************************************************)
\* ---- the configurations explored (process.env read into CONFIG) --------
BaseConfig ==
    [provider |-> "anthropic", apiKey |-> "sk-ant-key-0000000001", model |-> <<>>,
     githubToken |-> "ghs_token_0000000001", repository |-> "octo/repo",
     prNumber |-> <<7>>, baseBranch |-> "main", headSha |-> "", workspace |-> "/ws",
     thinkingBudget |-> <<10000>>, maxTokens |-> <<50000>>,
     severityThreshold |-> "LOW", failOnErrors |-> FALSE, dryRun |-> FALSE,
     googleProjectId |-> ""]

Configs ==
    { BaseConfig,
      [BaseConfig EXCEPT !.failOnErrors = TRUE, !.severityThreshold = "HIGH"],
      [BaseConfig EXCEPT !.dryRun = TRUE],
      [BaseConfig EXCEPT !.dryRun = TRUE, !.failOnErrors = TRUE, !.provider = "openai"],
      [BaseConfig EXCEPT !.provider = "Google", !.googleProjectId = "my-project-1",
                         !.failOnErrors = TRUE],
      [BaseConfig EXCEPT !.repository = Unset],
      [BaseConfig EXCEPT !.repository = "norepo", !.failOnErrors = TRUE],
      [BaseConfig EXCEPT !.maxTokens = <<500>>, !.dryRun = TRUE],
      [BaseConfig EXCEPT !.provider = "bogus"] }

\* ---- what git reports for the pull request -----------------------------
ChangedFileLists ==
    { <<"src/a.js", ".env.production", "b.js", "package-lock.json">>,
      <<"package-lock.json", "dist/secrets.min.js", ".env.production">> }

GuidelineTexts == {"", "# rules"}

\* ---- errors --------------------------------------------------------------
\* An Error: the stage it comes from, and its message as the prefix an adapter
\* puts before the vendor's words (label and attempt count) and the words.
Err(kind, label, n, text) == [kind |-> kind, label |-> label, n |-> n, text |-> text]

NoErr == Err("", "", 0, "")

\* sanitizeErrorMessage(error.message); the adapter's prefix matches no pattern
Sanitized(e) ==
    IF e.label = "" THEN [e EXCEPT !.text = sanitizeErrorMessage(e.text)]
    ELSE [e EXCEPT !.text = IF e.text = "" THEN "" ELSE sanitizeErrorMessage(e.text)]

\* ---- the record setOutputs appends to $GITHUB_OUTPUT (set by the runner) -
Outputs(keys, completed, fc, cc, hc, cost) ==
    [keys |-> keys, completed |-> completed, findings_count |-> fc, critical_count |-> cc,
     high_count |-> hc, cost_estimate |-> cost]

NoFilesOutputs ==
    Outputs({"completed", "findings_count", "critical_count", "high_count"},
            TRUE, 0, 0, 0, 0)

ErrorOutputs == Outputs({"completed"}, FALSE, 0, 0, 0, 0)

SuccessOutputs(findings, cost) ==
    Outputs({"completed", "findings_count", "critical_count", "high_count", "cost_estimate"},
            TRUE, Len(findings), countBySeverity(findings, "CRITICAL"),
            countBySeverity(findings, "HIGH"), ToFixed4(cost))

\* ---- the forge: the pull request's issue comments ----------------------
\* `marker` tells whether the body holds the summary's footer line
Comment(kind) == [kind |-> kind, marker |-> kind = "summary"]

Write(op, kind, id, n, ok, msg) ==
    [op |-> op, kind |-> kind, id |-> id, n |-> n, ok |-> ok, msg |-> msg]

\* comments.find(c => c.body?.includes(marker)): its index, 0 when none
FindExistingNever(comments) == 0
FindExisting(comments) ==
    IF \E i \in Indices(comments) : comments[i].marker
    THEN CHOOSE i \in Indices(comments) :
            comments[i].marker /\ \A j \in 1..(i - 1) : ~comments[j].marker
    ELSE 0

\* the catch of postNoFilesComment swallows the failure
NoFilesFailurePropagatesAlways == TRUE
NoFilesFailurePropagates == FALSE

\* if (CONFIG.failOnErrors) process.exit(1)
ExitsOnError(cfg) == cfg.failOnErrors

\* const [owner, repo] = CONFIG.repository.split('/') raises on undefined
SplitThrows(cfg) == cfg.repository = Unset

\* ---- grouping the findings by file, in order of first appearance -------
RECURSIVE FilesOf(_, _)
FilesOf(findings, seen) ==
    IF findings = <<>> THEN <<>>
    ELSE IF Head(findings).file \in seen THEN FilesOf(Tail(findings), seen)
    ELSE <<Head(findings).file>> \o FilesOf(Tail(findings), seen \cup {Head(findings).file})

\* byFile = {} inherits the properties of Object.prototype: for a file of
\* such a name `!byFile[finding.file]` is false and `.push` is not a function
InheritedNames == {"constructor", "toString", "valueOf", "hasOwnProperty", "__proto__"}

GroupByFileThrows(findings) ==
    \E i \in Indices(findings) : findings[i].file \in InheritedNames

PushIsNotAFunction ==
    "Failed to post comments: byFile[finding.file].push is not a function"

GroupByFile(findings) ==
    LET files == FilesOf(findings, {})
    IN  [i \in Indices(files) |->
            SelectSeq(findings, LAMBDA f : f.file = files[i])]

\* ---- the locals and effects of one run ---------------------------------
FreshRun ==
    [stages |-> <<>>, changedFiles |-> <<>>, reviewableFiles |-> <<>>,
     guidelines |-> "", provider |-> "", reviewCalls |-> 0, response |-> NoResult,
     allFindings |-> <<>>, findings |-> <<>>, costEstimate |-> <<>>,
     queue |-> <<>>, pending |-> <<>>, posted |-> 0, delivered |-> <<>>, existing |-> 0,
     error |-> NoErr, writes |-> <<>>, outputs |-> <<>>, terminal |-> "", exit |-> ""]

MainFrame ==
    UNCHANGED <<variant, thisModel, options, retries, attempt, rpc, inflight, now, trace,
                result, responseText, parsed, call, ret>>

Stage(r, name) == [r EXCEPT !.stages = Append(@, name)]

\* an exception reaches the catch of main()
Throw(r, e) ==
    /\ pc' = "catch"
    /\ run' = [r EXCEPT !.error = e]
    /\ UNCHANGED <<CONFIG, forge, runsDone>>

Goto(r, to) ==
    /\ pc' = to
    /\ run' = r
    /\ UNCHANGED <<CONFIG, forge, runsDone>>

\* main() returns (or process.exit is called) with outputs `out`
End(r, out, terminal, exit) ==
    /\ pc' = "done"
    /\ run' = [r EXCEPT !.outputs = Append(@, out), !.terminal = terminal, !.exit = exit]
    /\ runsDone' = runsDone + 1
    /\ UNCHANGED CONFIG

\* the process starts: CONFIG is read from the environment
MStart ==
    /\ pc \in {"idle", "done"}
    /\ runsDone < MaxRuns
    /\ \E cfg \in Configs : CONFIG' = cfg
    /\ pc' = "validate"
    /\ run' = FreshRun
    /\ UNCHANGED <<forge, runsDone>>
    /\ MainFrame

\* validateConfig()
MValidate ==
    /\ pc = "validate"
    /\ LET r == Stage(run, "Validate")
           text == validateConfig(CONFIG)
       IN  IF text # "" THEN Throw(r, Err("config", "", 0, text))
           ELSE Goto(r, "chdir")
    /\ MainFrame

\* process.chdir(CONFIG.workspace)
MChdir ==
    /\ pc = "chdir"
    /\ \E ok \in BOOLEAN :
         IF ok THEN Goto(run, "fetch")
         ELSE Throw(run, Err("chdir", "", 0, "ENOENT: no such file or directory"))
    /\ MainFrame

\* getPRChanges()
MFetch ==
    /\ pc = "fetch"
    /\ LET r == Stage(run, "Fetch")
       IN  \/ Throw(r, Err("fetch", "", 0, "Failed to get PR changes"))
           \/ \E files \in ChangedFileLists :
                 Goto([r EXCEPT !.changedFiles = files], "filter")
    /\ MainFrame

\* filterFiles(changedFiles) and the test for an empty result
MFilter ==
    /\ pc = "filter"
    /\ LET r == [Stage(run, "Filter") EXCEPT !.reviewableFiles = filterFiles(run.changedFiles)]
       IN  IF NoReviewableFiles(r.reviewableFiles)
           THEN Goto(r, "nofiles")
           ELSE Goto(r, "guidelines")
    /\ MainFrame

\* await postNoFilesComment(); setOutputs(...); return
MNoFiles ==
    /\ pc = "nofiles"
    /\ \E ok \in BOOLEAN :
         LET w == Write("createComment", "nofiles", 0, 1, ok, NoErr)
             r == [run EXCEPT !.writes = Append(@, w)]
         IN  /\ forge' = IF ok THEN Append(forge, Comment("nofiles")) ELSE forge
             /\ IF ~ok /\ NoFilesFailurePropagates
                THEN /\ pc' = "catch"
                     /\ run' = [r EXCEPT !.error = Err("publish", "", 0, "createComment failed")]
                     /\ UNCHANGED <<CONFIG, runsDone>>
                ELSE End(r, NoFilesOutputs, "NoFiles", "0")
    /\ MainFrame

\* readGuidelines()
MGuidelines ==
    /\ pc = "guidelines"
    /\ \E g \in GuidelineTexts : Goto([run EXCEPT !.guidelines = g], "create")
    /\ MainFrame

\* ProviderFactory.createProvider(...)
MCreateProvider ==
    /\ pc = "create"
    /\ LET made == createProvider(CONFIG.provider, CONFIG.apiKey, CONFIG.model,
                                  CONFIG.googleProjectId)
       IN  IF made.ok
           THEN /\ Goto([run EXCEPT !.provider = made.variant], "callLLM")
                /\ variant' = made.variant
                /\ thisModel' = made.model
           ELSE /\ Throw(run, Err("config", "", 0, made.error))
                /\ UNCHANGED <<variant, thisModel>>
    /\ UNCHANGED <<options, retries, attempt, rpc, inflight, now, trace, result,
                   responseText, parsed, call, ret>>

\* callLLM(): provider.review(systemPrompt, userPrompt, {maxTokens,
\* thinkingBudget, guidelines}) - no retries option is passed
MCallLLM ==
    /\ pc = "callLLM"
    /\ Goto([Stage(run, "Invoke") EXCEPT !.reviewCalls = @ + 1], "invoke")
    /\ options' = <<>>
    /\ rpc' = "call"
    /\ retries' = 0 /\ attempt' = 0 /\ inflight' = 0 /\ now' = 0
    /\ trace' = <<>> /\ result' = NoResult
    /\ UNCHANGED <<variant, thisModel, responseText, parsed, call, ret>>

\* review() has settled: callLLM returns the response or rethrows
MReviewSettled ==
    /\ pc = "invoke"
    /\ rpc \in {"returned", "thrown"}
    /\ IF rpc = "thrown"
       THEN Throw(run, Err("provider", result.name, result.retries, result.msg))
       ELSE IF result.kind = "undefined"
            THEN Throw(run, Err("internal", "", 0, "TypeError"))    \* response.usage
            ELSE Goto([run EXCEPT !.response = result], "parse")
    /\ variant' = "Anthropic" /\ thisModel' = <<>> /\ options' = <<>>
    /\ retries' = 0 /\ attempt' = 0 /\ rpc' = "idle" /\ inflight' = 0 /\ now' = 0
    /\ trace' = <<>> /\ result' = NoResult
    /\ UNCHANGED <<responseText, parsed, call, ret>>

RECURSIVE Flatten(_)
\* the token sequence of a text kept as newline-joined pieces
Flatten(pieces) ==
    IF pieces = <<>> THEN <<>> ELSE Head(pieces) \o Flatten(Tail(pieces))

\* parseFindings(response.text)
MParse ==
    /\ pc = "parse"
    /\ Goto([Stage(run, "Parse") EXCEPT
                !.allFindings = parseFindings(Flatten(run.response.text))],
            "postprocess")
    /\ MainFrame

\* filterBySeverity, countBySeverity, calculateCost and the dry-run branch
MPostProcess ==
    /\ pc = "postprocess"
    /\ LET findings == filterBySeverity(run.allFindings, CONFIG)
           cost == calculateCost(run.response.usage, run.response.model)
           r == [Stage(run, "PostProcess") EXCEPT !.findings = findings,
                                                  !.costEstimate = <<cost>>]
       IN  IF CONFIG.dryRun
           THEN /\ End(r, SuccessOutputs(findings, cost), "Success", "0")
                /\ UNCHANGED forge
           ELSE IF Len(findings) > 0
                THEN Goto(r, "listCommits")
                ELSE Goto(r, "listComments")
    /\ MainFrame

\* postReviewComments(): pulls.listCommits, then the grouping by file
MListCommits ==
    /\ pc = "listCommits"
    /\ \E ok \in BOOLEAN :
         IF ~ok THEN Throw(run, Err("publish", "", 0, "Failed to post comments"))
         ELSE IF GroupByFileThrows(run.findings)
              THEN Throw(run, Err("publish", "", 0, PushIsNotAFunction))
         ELSE Goto([run EXCEPT !.queue = GroupByFile(run.findings)], "postFile")
    /\ MainFrame

\* one turn of the loop over the files: pulls.createReview for the file
MCreateReview ==
    /\ pc = "postFile"
    /\ IF run.queue = <<>>
       THEN Goto(run, "listComments")
       ELSE \E ok \in BOOLEAN :
              LET comments == Head(run.queue)
                  w == Write("createReview", "inline", 0, Len(comments), ok, NoErr)
                  r == [run EXCEPT !.writes = Append(@, w), !.queue = Tail(@)]
              IN  IF ok THEN Goto([r EXCEPT !.posted = @ + Len(comments),
                                            !.delivered = @ \o comments], "postFile")
                  ELSE Goto([r EXCEPT !.pending = comments], "fallback")
    /\ MainFrame

\* the fallback loop: issues.createComment for one finding of the file
MFallback ==
    /\ pc = "fallback"
    /\ IF run.pending = <<>>
       THEN Goto(run, "postFile") /\ MainFrame
       ELSE \E ok \in BOOLEAN :
              LET w == Write("createComment", "fallback", 0, 1, ok, NoErr)
                  r == [run EXCEPT !.writes = Append(@, w), !.pending = Tail(@),
                                   !.posted = IF ok THEN @ + 1 ELSE @,
                                   !.delivered = IF ok THEN Append(@, Head(run.pending))
                                                 ELSE @]
              IN  /\ pc' = "fallback"
                  /\ run' = r
                  /\ forge' = IF ok THEN Append(forge, Comment("fallback")) ELSE forge
                  /\ UNCHANGED <<CONFIG, runsDone>>
                  /\ MainFrame

\* postSummaryComment(): issues.listComments and the search for the marker
MListComments ==
    /\ pc = "listComments"
    /\ \E ok \in BOOLEAN :
         IF ok THEN Goto([run EXCEPT !.existing = FindExisting(forge)], "upsert")
         ELSE Throw(run, Err("publish", "", 0, "Failed to post summary"))
    /\ MainFrame

\* postSummaryComment(): update the comment found or create one; then
\* setOutputs(...) of the successful run
MUpsertSummary ==
    /\ pc = "upsert"
    /\ \E ok \in BOOLEAN :
         LET op == IF run.existing # 0 THEN "updateComment" ELSE "createComment"
             w == Write(op, "summary", run.existing, 1, ok, NoErr)
             r == [run EXCEPT !.writes = Append(@, w)]
         IN  IF ok
             THEN /\ forge' = IF run.existing # 0
                              THEN [forge EXCEPT ![run.existing] = Comment("summary")]
                              ELSE Append(forge, Comment("summary"))
                  /\ End(r, SuccessOutputs(run.findings, run.costEstimate[1]),
                         "Success", "0")
             ELSE Throw(r, Err("publish", "", 0, "Failed to post summary"))
    /\ MainFrame

\* the catch of main(): one error comment, setOutputs({completed: false}),
\* and the exit
MCatch ==
    /\ pc = "catch"
    /\ LET sanitizedMessage == Sanitized(run.error)
           exit == IF ExitsOnError(CONFIG) THEN "1" ELSE "0"
       IN  IF SplitThrows(CONFIG)
           THEN /\ End(run, ErrorOutputs, "Error", exit)
                /\ UNCHANGED forge
           ELSE \E ok \in BOOLEAN :
                  LET w == Write("createComment", "error", 0, 1, ok, sanitizedMessage)
                  IN  /\ forge' = IF ok THEN Append(forge, Comment("error")) ELSE forge
                      /\ End([run EXCEPT !.writes = Append(@, w)], ErrorOutputs,
                             "Error", exit)
    /\ MainFrame

InitMain ==
    /\ CONFIG = BaseConfig
    /\ pc = "idle"
    /\ run = FreshRun
    /\ forge = <<>>
    /\ runsDone = 0
    /\ ReviewIdle /\ ParseIdle /\ CallIdle

NextMain ==
    \/ MStart \/ MValidate \/ MChdir \/ MFetch \/ MFilter \/ MNoFiles
    \/ MGuidelines \/ MCreateProvider \/ MCallLLM
    \/ RvEnter \/ RvSend \/ RvResolve \/ RvReject \/ RvTimer
    \/ MReviewSettled \/ MParse \/ MPostProcess
    \/ MListCommits \/ MCreateReview \/ MFallback \/ MListComments \/ MUpsertSummary
    \/ MCatch

SpecMain == InitMain /\ [][NextMain]_vars

(***************************************************************************)
(* Part 3c. Two live runs on the same pull request that have both reached  *)
(* postSummaryComment: pc and run are indexed by the run                   *)
(***************************************************************************)
Procs == {1, 2}

StagesBeforeSummary == <<"Validate", "Fetch", "Filter", "Invoke", "Parse", "PostProcess">>

\* the issue comments of the pull request when the runs get there
OverlapForges ==
    { <<>>, <<Comment("fallback")>>, <<Comment("summary")>>,
      <<Comment("error"), Comment("summary"), Comment("fallback")>> }

OverlapFrame ==
    UNCHANGED <<variant, thisModel, options, retries, attempt, rpc, inflight, now, trace,
                result, responseText, parsed, call, ret, CONFIG>>

\* issues.listComments and comments.find by the marker, in run p
OvListComments ==
    /\ \E p \in Procs :
         /\ pc[p] = "listComments"
         /\ \E ok \in BOOLEAN :
              IF ok
              THEN /\ pc' = [pc EXCEPT ![p] = "upsert"]
                   /\ run' = [run EXCEPT ![p].existing = FindExisting(forge)]
              ELSE /\ pc' = [pc EXCEPT ![p] = "catch"]
                   /\ run' = [run EXCEPT ![p].error =
                                  Err("publish", "", 0, "Failed to post summary")]
    /\ UNCHANGED <<forge, runsDone>>
    /\ OverlapFrame

\* issues.updateComment on the comment found, or issues.createComment, in run p
OvUpsertSummary ==
    /\ \E p \in Procs :
         /\ pc[p] = "upsert"
         /\ \E ok \in BOOLEAN :
              LET op == IF run[p].existing # 0 THEN "updateComment" ELSE "createComment"
                  w == Write(op, "summary", run[p].existing, 1, ok, NoErr)
              IN  IF ok
                  THEN /\ forge' = IF run[p].existing # 0
                                   THEN [forge EXCEPT ![run[p].existing] = Comment("summary")]
                                   ELSE Append(forge, Comment("summary"))
                       /\ pc' = [pc EXCEPT ![p] = "done"]
                       /\ run' = [run EXCEPT ![p].writes = Append(@, w),
                                             ![p].terminal = "Success", ![p].exit = "0"]
                       /\ runsDone' = runsDone + 1
                  ELSE /\ forge' = forge
                       /\ pc' = [pc EXCEPT ![p] = "catch"]
                       /\ run' = [run EXCEPT ![p].writes = Append(@, w),
                                             ![p].error =
                                  Err("publish", "", 0, "Failed to post summary")]
                       /\ runsDone' = runsDone
    /\ OverlapFrame

\* the catch of main() in run p: postErrorComment and the end of the run
OvCatch ==
    /\ \E p \in Procs :
         /\ pc[p] = "catch"
         /\ \E ok \in BOOLEAN :
              LET w == Write("createComment", "error", 0, 1, ok, Sanitized(run[p].error))
              IN  /\ forge' = IF ok THEN Append(forge, Comment("error")) ELSE forge
                  /\ pc' = [pc EXCEPT ![p] = "done"]
                  /\ run' = [run EXCEPT ![p].writes = Append(@, w),
                                        ![p].terminal = "Error",
                                        ![p].exit = IF ExitsOnError(CONFIG) THEN "1" ELSE "0"]
    /\ runsDone' = runsDone + 1
    /\ OverlapFrame

InitOverlap ==
    /\ CONFIG = BaseConfig
    /\ pc = [p \in Procs |-> "listComments"]
    /\ run = [p \in Procs |-> [FreshRun EXCEPT !.stages = StagesBeforeSummary]]
    /\ forge \in OverlapForges
    /\ runsDone = 0
    /\ ReviewIdle /\ ParseIdle /\ CallIdle

NextOverlap == OvListComments \/ OvUpsertSummary \/ OvCatch

SpecOverlap == InitOverlap /\ [][NextOverlap]_vars

(***************************************************************************)
(* Part 4. The pure functions, each called on its own                      *)
(***************************************************************************)
CallFrame ==
    UNCHANGED <<variant, thisModel, options, retries, attempt, rpc, inflight, now, trace,
                result, responseText, parsed, CONFIG, pc, run, forge, runsDone>>

\* ---- filterBySeverity --------------------------------------------------
\* f.severity as a model may write it: the four levels and two others
Severities == {"CRITICAL", "HIGH", "MEDIUM", "LOW", "INFO", "high"}

\* SEVERITY_THRESHOLD as a workflow may set it
Thresholds == {"CRITICAL", "HIGH", "MEDIUM", "LOW", "medium", "high", "URGENT"}

FindingSeqs ==
    UNION { [1..n -> { Finding(sev, "a.js", 1, "t") : sev \in Severities }] : n \in 0..MaxElems }

CallFilterBySeverity ==
    /\ call.fn = ""
    /\ \E t \in Thresholds, fs \in FindingSeqs :
         LET cfg == [BaseConfig EXCEPT !.severityThreshold = t]
         IN  /\ call' = [fn |-> "filterBySeverity", cfg |-> cfg, findings |-> fs]
             /\ ret' = <<filterBySeverity(fs, cfg)>>
    /\ CallFrame

\* ---- filterFiles -------------------------------------------------------
Paths == {"src/a.js", "b.js", ".env.production", "package-lock.json", "dist/secrets.min.js"}

PathSeqs == UNION { [1..n -> Paths] : n \in 0..MaxElems }

CallFilterFiles ==
    /\ call.fn = ""
    /\ \E files \in PathSeqs :
         /\ call' = [fn |-> "filterFiles", files |-> files]
         /\ ret' = <<[filteredFiles |-> filterFiles(files),
                      sensitiveFiles |-> sensitiveFiles(files)]>>
    /\ CallFrame

\* ---- the adapters' getModelPricing and calculateCost ------------------
\* PRICING_TABLE of each adapter class, <<>> for a name that is not a key
PRICING_TABLE(v, name) ==
    CASE v = "Anthropic" ->
           (CASE name = <<"claude", "-", "sonnet", "-4-5-20250929">> -> <<SonnetPrice>>
              [] name = <<"claude", "-", "opus", "-4-5-20251101">>   -> <<OpusPrice>>
              [] name = <<"claude", "-", "haiku", "-4-5-20250101">>  -> <<HaikuPrice>>
              [] name = <<"claude", "-3-5-", "sonnet", "-20241022">> -> <<SonnetPrice>>
              [] name = <<"claude", "-3-5-", "haiku", "-20241022">>  -> <<HaikuPrice>>
              [] OTHER -> NoPrice)
      [] v = "OpenAI" ->
           (CASE name = <<"gpt", "-4", "-turbo", "-preview">> -> <<Gpt4TurboPrice>>
              [] name = <<"gpt", "-4", "-turbo">>             -> <<Gpt4TurboPrice>>
              [] name = <<"gpt", "-4">>                       -> <<Gpt4Price>>
              [] name = <<"gpt", "-3.5", "-turbo">>           -> <<Gpt35Price>>
              [] OTHER -> NoPrice)
      [] v = "Google" ->
           (CASE name = <<"gemini", "-", "1.5-", "pro">>   -> <<Gemini15ProPrice>>
              [] name = <<"gemini", "-", "1.5-", "flash">> -> <<Gemini15FlashPrice>>
              [] name = <<"gemini", "-", "pro">>           -> <<GeminiProPrice>>
              [] OTHER -> NoPrice)

TableKeys(v) ==
    CASE v = "Anthropic" ->
           { <<"claude", "-", "sonnet", "-4-5-20250929">>, <<"claude", "-", "opus", "-4-5-20251101">>,
             <<"claude", "-", "haiku", "-4-5-20250101">>, <<"claude", "-3-5-", "sonnet", "-20241022">>,
             <<"claude", "-3-5-", "haiku", "-20241022">> }
      [] v = "OpenAI" ->
           { <<"gpt", "-4", "-turbo", "-preview">>, <<"gpt", "-4", "-turbo">>, <<"gpt", "-4">>,
             <<"gpt", "-3.5", "-turbo">> }
      [] v = "Google" ->
           { <<"gemini", "-", "1.5-", "pro">>, <<"gemini", "-", "1.5-", "flash">>,
             <<"gemini", "-", "pro">> }

\* one `else if (name.includes(sub)) return PRICING_TABLE[key]` of the chain
Rule(sub, key) == [sub |-> sub, key |-> key]

\* the chain of family rules of each adapter, in the order it is written
FamilyRulesGeneralFirst(v) ==
    CASE v = "Anthropic" ->
           << Rule(<<"opus">>, <<"claude", "-", "opus", "-4-5-20251101">>),
              Rule(<<"haiku">>, <<"claude", "-", "haiku", "-4-5-20250101">>),
              Rule(<<"sonnet">>, <<"claude", "-", "sonnet", "-4-5-20250929">>) >>
      [] v = "OpenAI" ->
           << Rule(<<"gpt", "-4">>, <<"gpt", "-4">>),
              Rule(<<"gpt", "-4", "-turbo">>, <<"gpt", "-4", "-turbo">>),
              Rule(<<"gpt", "-3.5">>, <<"gpt", "-3.5", "-turbo">>) >>
      [] v = "Google" ->
           << Rule(<<"flash">>, <<"gemini", "-", "1.5-", "flash">>),
              Rule(<<"pro">>, <<"gemini", "-", "pro">>),
              Rule(<<"1.5-", "pro">>, <<"gemini", "-", "1.5-", "pro">>) >>
FamilyRules(v) ==
    CASE v = "Anthropic" ->
           << Rule(<<"opus">>, <<"claude", "-", "opus", "-4-5-20251101">>),
              Rule(<<"haiku">>, <<"claude", "-", "haiku", "-4-5-20250101">>),
              Rule(<<"sonnet">>, <<"claude", "-", "sonnet", "-4-5-20250929">>) >>
      [] v = "OpenAI" ->
           << Rule(<<"gpt", "-4", "-turbo">>, <<"gpt", "-4", "-turbo">>),
              Rule(<<"gpt", "-4">>, <<"gpt", "-4">>),
              Rule(<<"gpt", "-3.5">>, <<"gpt", "-3.5", "-turbo">>) >>
      [] v = "Google" ->
           << Rule(<<"flash">>, <<"gemini", "-", "1.5-", "flash">>),
              Rule(<<"1.5-", "pro">>, <<"gemini", "-", "1.5-", "pro">>),
              Rule(<<"pro">>, <<"gemini", "-", "pro">>) >>

\* the entry returned when no rule matches
FallbackKey(v) ==
    CASE v = "Anthropic" -> <<"claude", "-", "sonnet", "-4-5-20250929">>
      [] v = "OpenAI"    -> <<"gpt", "-4", "-turbo">>
      [] v = "Google"    -> <<"gemini", "-", "1.5-", "pro">>

\* only the Anthropic adapter cuts the name at its first ':'
LookupName(v, modelName) == IF v = "Anthropic" THEN SplitColon(modelName) ELSE modelName

\* getModelPricing of adapter v: the entry, the key it was read from, the
\* number of the rule that gave it (0: the table, Len + 1: the fallback) and
\* whether a ::warning:: line was logged
Pricing(prices, key, rule, warned) ==
    [prices |-> prices, key |-> key, rule |-> rule, warned |-> warned]

AdapterGetModelPricing(v, modelName) ==
    LET name == LookupName(v, modelName)
        rules == FamilyRules(v)
        hits == {i \in Indices(rules) : Includes(name, rules[i].sub)}
    IN  IF PRICING_TABLE(v, name) # NoPrice
        THEN Pricing(PRICING_TABLE(v, name)[1], name, 0, FALSE)
        ELSE IF hits # {}
             THEN LET i == CHOOSE h \in hits : \A g \in hits : h <= g
                  IN  Pricing(PRICING_TABLE(v, rules[i].key)[1], rules[i].key, i, TRUE)
        ELSE Pricing(PRICING_TABLE(v, FallbackKey(v))[1], FallbackKey(v),
                     Len(rules) + 1, TRUE)

\* usage.<k> || 0
Count(usage, k) == IF k \in usage.has THEN usage[k] ELSE 0

\* calculateCost of adapter v, in units of 10^-8 dollars (the rates are in
\* hundredths of a dollar per million tokens)
AdapterCalculateCostCacheRebate(v, thisM, usage, modelName) ==
    LET prices == AdapterGetModelPricing(v, IF modelName = <<>> THEN thisM ELSE modelName).prices
    IN  Count(usage, "input_tokens") * prices.input
        + Count(usage, "output_tokens") * prices.output
        - (IF v = "Anthropic" THEN Count(usage, "cache_read_input_tokens") * prices.cache_read[1]
           ELSE 0)
AdapterCalculateCostNoCache(v, thisM, usage, modelName) ==
    LET prices == AdapterGetModelPricing(v, IF modelName = <<>> THEN thisM ELSE modelName).prices
    IN  Count(usage, "input_tokens") * prices.input
        + Count(usage, "output_tokens") * prices.output
AdapterCalculateCost(v, thisM, usage, modelName) ==
    LET model == IF modelName = <<>> THEN thisM ELSE modelName      \* modelName || this.model
        prices == AdapterGetModelPricing(v, model).prices
    IN  Count(usage, "input_tokens") * prices.input
        + Count(usage, "output_tokens") * prices.output
        + (IF v = "Anthropic" /\ Count(usage, "cache_creation_input_tokens") # 0
           THEN Count(usage, "cache_creation_input_tokens") * prices.cache_write[1] ELSE 0)
        + (IF v = "Anthropic" /\ Count(usage, "cache_read_input_tokens") # 0
           THEN Count(usage, "cache_read_input_tokens") * prices.cache_read[1] ELSE 0)

\* ---- the model names and usage objects explored ------------------------
ModelNames ==
    { <<"claude", "-", "sonnet", "-4-5-20250929">>, <<"claude", "-", "opus", "-4-5-20251101">>,
      <<"claude", "-3-5-", "haiku", "-20241022">>,
      <<"claude", "-", "opus", "-5">>, <<"claude", "-3-", "haiku">>,
      <<"claude", "-", "sonnet", "-4-5-20250929", ":", "beta">>,
      <<"gpt", "-4", "-turbo", "-preview">>, <<"gpt", "-4">>, <<"gpt", "-3.5", "-turbo">>,
      <<"gpt", "-4", "-turbo", "-2024">>, <<"gpt", "-4", "o">>, <<"gpt", "-3.5", "-16k">>,
      <<"gpt", "-4", "-turbo", ":", "ft">>,
      <<"gemini", "-", "1.5-", "pro">>, <<"gemini", "-", "1.5-", "flash">>, <<"gemini", "-", "pro">>,
      <<"gemini", "-", "1.5-", "pro", "-002">>, <<"gemini", "-", "2.0-", "pro">>,
      <<"gemini", "-", "2.0-", "flash">>, <<"gemini", "-", "ultra">>,
      <<"mystery", "-", "model">> }

UsageKeys ==
    <<"input_tokens", "output_tokens", "cache_creation_input_tokens", "cache_read_input_tokens">>

\* a counter is absent (<<>>) or a non-negative integer
CounterChoices(k) ==
    LET base == CASE k = "input_tokens" -> 1000
                  [] k = "output_tokens" -> 500
                  [] k = "cache_creation_input_tokens" -> 200
                  [] k = "cache_read_input_tokens" -> 100
    IN  {<<>>, <<0>>, <<base>>, <<2 * base>>}

MkUsage(i, o, cw, cr) ==
    Usage({UsageKeys[n] : n \in {n \in 1..4 : <<i, o, cw, cr>>[n] # <<>>}},
          IF i = <<>> THEN 0 ELSE i[1], IF o = <<>> THEN 0 ELSE o[1],
          IF cw = <<>> THEN 0 ELSE cw[1], IF cr = <<>> THEN 0 ELSE cr[1])

Usages ==
    { MkUsage(i, o, cw, cr) :
        i \in CounterChoices("input_tokens"), o \in CounterChoices("output_tokens"),
        cw \in CounterChoices("cache_creation_input_tokens"),
        cr \in CounterChoices("cache_read_input_tokens") }

\* the model an adapter is constructed with when none is given
ConstructorDefault(v) ==
    CASE v = "Anthropic" -> <<"claude", "-", "sonnet", "-4-5-20250929">>
      [] v = "OpenAI"    -> <<"gpt", "-4", "-turbo", "-preview">>
      [] v = "Google"    -> <<"gemini", "-", "1.5-", "pro">>

\* provider.calculateCost(usage[, modelName])
CallCalculateCost ==
    /\ call.fn = ""
    /\ \E v \in Variants, usage \in Usages, modelName \in ModelNames \cup {<<>>} :
         /\ call' = [fn |-> "calculateCost", variant |-> v, thisModel |-> ConstructorDefault(v),
                     usage |-> usage, modelName |-> modelName]
         /\ ret' = <<AdapterCalculateCost(v, ConstructorDefault(v), usage, modelName)>>
    /\ CallFrame

\* provider.getModelPricing(modelName)
\* the table keys followed by ':' and a suffix
Suffixes == {<<"latest">>, <<"flash">>, <<"opus">>}

SuffixedNames ==
    {m \o <<":">> \o sfx : m \in UNION {TableKeys(v) : v \in Variants}, sfx \in Suffixes}

CallGetModelPricing ==
    /\ call.fn = ""
    /\ \E v \in Variants, modelName \in ModelNames \cup SuffixedNames :
         /\ call' = [fn |-> "getModelPricing", variant |-> v, modelName |-> modelName]
         /\ ret' = <<AdapterGetModelPricing(v, modelName)>>
    /\ CallFrame

\* ---- the request main() sends to the provider ---------------------------
\* the hunk `git diff` prints for one changed file
Hunks == {"+one", "+two"}

\* getPRChanges(): the diff of every changed file, and the names of the files
getPRChanges(files, hunks) ==
    [diff |-> [i \in Indices(files) |-> [file |-> files[i], hunk |-> hunks[i]]],
     changedFiles |-> files]

getSystemPrompt == "You are an expert code reviewer. ..."

\* the template of userPrompt in callLLM
UserPrompt(cfg, files, diff) ==
    [prNumber |-> cfg.prNumber, repository |-> cfg.repository, changedFiles |-> files,
     codeChanges |-> diff]

\* main() from getPRChanges to provider.review: the request sent, none when
\* no file is reviewable
ReviewRequest(cfg, changes, guidelines) ==
    LET reviewableFiles == filterFiles(changes.changedFiles)
    IN  IF NoReviewableFiles(reviewableFiles) THEN <<>>
        ELSE <<[systemPrompt |-> getSystemPrompt,
                userPrompt |-> UserPrompt(cfg, reviewableFiles, changes.diff),
                maxTokens |-> cfg.maxTokens, thinkingBudget |-> cfg.thinkingBudget,
                guidelines |-> guidelines]>>

\* two runs on the same changed files, each with its own diff
CallLLMTwice ==
    /\ call.fn = ""
    /\ \E files \in ChangedFileLists :
         \E first \in [Indices(files) -> Hunks], second \in [Indices(files) -> Hunks] :
           /\ call' = [fn |-> "callLLM", files |-> files,
                       first |-> getPRChanges(files, first),
                       second |-> getPRChanges(files, second)]
           /\ ret' = <<[first |-> ReviewRequest(BaseConfig, getPRChanges(files, first), ""),
                        second |-> ReviewRequest(BaseConfig, getPRChanges(files, second), "")]>>
    /\ CallFrame

\* getModelPricing(modelName) of review.js
CallOrchestratorGetModelPricing ==
    /\ call.fn = ""
    /\ \E modelName \in ModelNames \cup SuffixedNames :
         /\ call' = [fn |-> "review.getModelPricing", modelName |-> modelName]
         /\ ret' = <<getModelPricing(modelName)>>
    /\ CallFrame

\* ---- ProviderFactory ---------------------------------------------------
ProviderNames ==
    { "anthropic", "claude", "openai", "gpt", "google", "gemini",
      "ANTHROPIC", "Claude", "OpenAI", "GPT", "Google", "Gemini",
      "unknown", "Unknown", "bogus", "" }

ApiKeys == {"", Unset, "test-key-0000000001"}

SuppliedModels == {<<>>, <<"test", "-", "model">>}

ProjectIds == {"", Unset, "test-project"}

CallCreateProvider ==
    /\ call.fn = ""
    /\ \E providerName \in ProviderNames, apiKey \in ApiKeys, model \in SuppliedModels,
          projectId \in ProjectIds :
         /\ call' = [fn |-> "createProvider", providerName |-> providerName,
                     apiKey |-> apiKey, model |-> model, projectId |-> projectId]
         /\ ret' = <<createProvider(providerName, apiKey, model, projectId)>>
    /\ CallFrame

\* ---- CONFIG as the module reads it from process.env ---------------------
PrNumberRaws == {"7", "0", "-3", "1.5", "abc", Unset}

MaxTokensRaws == {Unset, "", "abc", "999", "1000", "200000", "200001"}

ThinkingBudgetRaws == {Unset, "abc", "-1", "0", "100000", "100001"}

ValidatedProviders == {Unset, "anthropic", "OpenAI", "google", "Google", "gemini", "claude", "bogus"}

ValidatedProjectIds == {Unset, "", "my-project-1", "Bad_Project"}

ValidatedKeys == {Unset, "short", "sk-ant-key-0000000001"}

Environments ==
    [PR_NUMBER : PrNumberRaws, MAX_TOKENS : MaxTokensRaws,
     THINKING_BUDGET : ThinkingBudgetRaws, LLM_PROVIDER : ValidatedProviders,
     GOOGLE_PROJECT_ID : ValidatedProjectIds, LLM_API_KEY : ValidatedKeys]

ReadConfig(env) ==
    [BaseConfig EXCEPT
       !.provider = OrDefault(env.LLM_PROVIDER, "anthropic"),
       !.apiKey = env.LLM_API_KEY,
       !.prNumber = ParseInt(env.PR_NUMBER),
       !.thinkingBudget = ParseInt(OrDefault(env.THINKING_BUDGET, "10000")),
       !.maxTokens = ParseInt(OrDefault(env.MAX_TOKENS, "50000")),
       !.googleProjectId = env.GOOGLE_PROJECT_ID]

\* main() up to the provider: validateConfig(), then, when it returns,
\* ProviderFactory.createProvider on the same CONFIG
CallValidateConfig ==
    /\ call.fn = ""
    /\ \E env \in Environments :
         LET cfg == ReadConfig(env)
             message == validateConfig(cfg)
         IN  /\ call' = [fn |-> "validateConfig", env |-> env, cfg |-> cfg]
             /\ ret' = <<[message |-> message,
                          made |-> IF message = ""
                                   THEN <<createProvider(cfg.provider, cfg.apiKey,
                                                         cfg.model, cfg.googleProjectId)>>
                                   ELSE <<>>]>>
    /\ CallFrame

\* ---- provider objects: construction and method calls --------------------
\* TestProvider is `class TestProvider extends BaseLLMProvider {}`
ProviderClasses == {"BaseLLMProvider", "TestProvider"} \cup Variants

Methods ==
    {"review", "calculateCost", "getName", "supportsPromptCaching",
     "supportsExtendedThinking"}

Returned(value) == [threw |-> FALSE, value |-> <<value>>, message |-> ""]

Thrown(message) == [threw |-> TRUE, value |-> <<>>, message |-> message]

\* this.constructor === BaseLLMProvider
IsAbstractNever(class) == FALSE
IsAbstract(class) == class = "BaseLLMProvider"

\* new <class>(apiKey, model): the default of the parameter `model` applies
\* when the argument is undefined
Construct(class, apiKey, model) ==
    IF IsAbstract(class)
    THEN Thrown("BaseLLMProvider is abstract and cannot be instantiated directly")
    ELSE Returned([class |-> class, apiKey |-> apiKey,
                   model |-> IF model = <<>> /\ class \in Variants
                             THEN ConstructorDefault(class) ELSE model])

\* the methods a class defines itself
OverridesNothing(class) == {}
Overrides(class) == IF class \in Variants THEN Methods ELSE {}

\* the methods of BaseLLMProvider
BaseMethod(method) ==
    CASE method = "review"        -> Thrown("review() must be implemented by provider")
      [] method = "calculateCost" -> Thrown("calculateCost() must be implemented by provider")
      [] method = "getName"       -> Thrown("getName() must be implemented by provider")
      [] method = "supportsPromptCaching"    -> Returned(FALSE)
      [] method = "supportsExtendedThinking" -> Returned(FALSE)

AdapterGetName(v) ==
    CASE v = "Anthropic" -> "Anthropic Claude"
      [] v = "OpenAI"    -> "OpenAI"
      [] v = "Google"    -> "Google Gemini"

AdapterSupportsPromptCaching(v) ==
    CASE v = "Anthropic" -> TRUE
      [] v = "OpenAI"    -> FALSE
      [] v = "Google"    -> FALSE

AdapterSupportsExtendedThinking(v) ==
    CASE v = "Anthropic" -> TRUE
      [] v = "OpenAI"    -> FALSE
      [] v = "Google"    -> FALSE

\* the arguments explored: whether the vendor keeps failing (review), the
\* usage and the model name (calculateCost)
MethodArgs(method) ==
    [fails : IF method = "review" THEN BOOLEAN ELSE {FALSE},
     usage : {Usage({"input_tokens", "output_tokens"}, 1000, 500, 0, 0)},
     modelName : IF method = "calculateCost"
                 THEN {<<>>, <<"mystery", "-", "model">>} ELSE {<<>>}]

\* obj.<method>(...): the class's own method when it defines one, the base's
\* otherwise.  review() is taken as a whole: it resolves with the first
\* response or rejects after its retries.
Invoke(obj, method, arg) ==
    IF method \notin Overrides(obj.class) THEN BaseMethod(method)
    ELSE CASE method = "review" ->
                IF arg.fails THEN Thrown("API failed after 3 attempts: rate limited")
                ELSE Returned(ReviewResponse(obj.class,
                                [blocks |-> <<TextBlock(ThreeFindings)>>,
                                 model |-> obj.model, usage |-> arg.usage], obj.model))
           [] method = "calculateCost" ->
                Returned(AdapterCalculateCost(obj.class, obj.model, arg.usage, arg.modelName))
           [] method = "getName" -> Returned(AdapterGetName(obj.class))
           [] method = "supportsPromptCaching" ->
                Returned(AdapterSupportsPromptCaching(obj.class))
           [] method = "supportsExtendedThinking" ->
                Returned(AdapterSupportsExtendedThinking(obj.class))

ConstructorKeys == {"test-key-0000000001", "other-key-0000000002"}

\* new <class>(apiKey, model)
CallNewProvider ==
    /\ call.fn = ""
    /\ \E class \in ProviderClasses, apiKey \in ConstructorKeys, model \in SuppliedModels :
         LET made == Construct(class, apiKey, model)
         IN  /\ call' = [fn |-> "new", class |-> class, apiKey |-> apiKey, model |-> model,
                         obj |-> made.value]
             /\ ret' = <<[new |-> made, log |-> <<>>]>>
    /\ CallFrame

\* one more method call on the object constructed; no method assigns a field
\* of `this`
CallProviderMethod ==
    /\ call.fn = "new" /\ call.obj # <<>>
    /\ Len(ret[1].log) < MaxCalls
    /\ \E method \in Methods :
         \E arg \in MethodArgs(method) :
           ret' = <<[ret[1] EXCEPT !.log =
                        Append(@, [method |-> method, arg |-> arg,
                                   outcome |-> Invoke(call.obj[1], method, arg)])]>>
    /\ UNCHANGED call
    /\ UNCHANGED <<reviewVars, parseVars, mainVars>>

CallGetSupportedProviders ==
    /\ call.fn = ""
    /\ call' = [fn |-> "getSupportedProviders"]
    /\ ret' = <<getSupportedProviders>>
    /\ CallFrame

(***************************************************************************)
(* Properties of review()                                                  *)
(***************************************************************************)
ReviewEntered == rpc \notin {"idle", "call"}

ReviewEnded == rpc \in {"returned", "thrown"}

\* an attempt succeeds when the vendor resolves it with a response the
\* variant can take its text from
Succeeded(ev) == ev.e = "resolved" /\ ~ExtractThrows(variant, ev.resp)

Failed(ev) == ev.e = "rejected" \/ (ev.e = "resolved" /\ ExtractThrows(variant, ev.resp))

Requests == SelectSeq(trace, LAMBDA ev : ev.e = "req")

Successes == SelectSeq(trace, LAMBDA ev : Succeeded(ev))

Failures == SelectSeq(trace, LAMBDA ev : Failed(ev))

Waits == SelectSeq(trace, LAMBDA ev : ev.e = "wait")

\* C1: with retries >= 1, review issues its vendor requests one after
\* another (never two outstanding, each settled before the next is sent),
\* issues at most `retries` of them, issues none after the first that
\* succeeds, and the ReviewResponse it returns is built from that first
\* successful request.
C1_RequestsSequentialBoundedFirstSuccess ==
    (ReviewEntered /\ retries >= 1) =>
        /\ inflight \in {0, 1}
        /\ \A i \in Indices(trace) :
             (trace[i].e = "req" /\ i < Len(trace)) =>
                 trace[i + 1].e \in {"resolved", "rejected"} /\ trace[i + 1].k = trace[i].k
        /\ \A i \in Indices(Requests) : Requests[i].k = i
        /\ Len(Requests) <= retries
        /\ \A i, j \in Indices(trace) :
             (i < j /\ Succeeded(trace[i])) => trace[j].e # "req"
        /\ (rpc = "returned") =>
             /\ Len(Successes) >= 1
             /\ result = ReviewResponse(variant, Successes[1].resp, thisModel)

\* C1 witness: a call with retries >= 2 that returned the response of a
\* request sent after an earlier request had failed.
C1_Witness ==
    /\ rpc = "returned" /\ retries >= 2
    /\ Len(Failures) >= 1 /\ Len(Successes) = 1
    /\ result.kind = "response"

\* C2: for every retries >= 0, if no attempt succeeded review ends by
\* throwing an error that names the provider and embeds the message of the
\* last failed attempt, and review never returns normally without a
\* successful vendor response.
C2_FailsWithLastErrorOrReturnsSuccess ==
    ReviewEnded =>
        /\ (Len(Successes) = 0) =>
              /\ rpc = "thrown"
              /\ result.kind = "error"
              /\ result.name = ProviderLabel(variant)
              /\ Len(Failures) >= 1
              /\ result.msg = Last(Failures).msg
        /\ (rpc = "returned") => Len(Successes) >= 1

\* C3: after failed attempt k < retries the adapter waits exactly 2^k
\* seconds before attempt k+1 starts; after the failed attempt k = retries it
\* throws without waiting; nothing precedes the first attempt.
C3_BackoffSchedule ==
    ReviewEntered =>
        /\ (trace # <<>>) => (trace[1].e = "req" /\ trace[1].k = 1 /\ trace[1].t = 0)
        /\ \A i \in Indices(trace) :
             /\ (trace[i].e = "wait") =>
                   /\ i > 1 /\ Failed(trace[i - 1])
                   /\ trace[i].k = trace[i - 1].k
                   /\ trace[i].k < retries
                   /\ trace[i].d = Pow2(trace[i].k) * 1000
             /\ (trace[i].e = "req" /\ trace[i].k > 1) =>
                   /\ trace[i - 1].e = "wait"
                   /\ trace[i - 1].k = trace[i].k - 1
                   /\ trace[i].t - trace[i - 1].t = Pow2(trace[i].k - 1) * 1000
             /\ (Failed(trace[i]) /\ trace[i].k < retries) =>
                   (i < Len(trace) /\ trace[i + 1].e = "wait")
        /\ \A i \in Indices(Waits) : Waits[i].d = Pow2(i) * 1000
        /\ (rpc = "thrown") =>
             /\ Failed(Last(trace)) /\ Last(trace).k = retries
             /\ Len(Waits) = retries - 1

\* C3 witness: a call that failed four times, so that it waited 2, 4 and 8
\* seconds, before it threw.
C3_Witness ==
    /\ rpc = "thrown" /\ retries = 4
    /\ Len(Waits) = 3 /\ Waits[3].d = 8000
    /\ now = 14000

\* C10: for every JSON array the response holds, parseFindings returns exactly
\* its elements that have all four of severity, file, line and title, in their
\* order; any other element, null and non-objects included, is dropped alone.
C10_KeepsExactlyCompleteElements ==
    (parsed # <<>>) =>
        LET m == JsonMatch(responseText)
        IN  (m # <<>> /\ JSONParse(m[1]).ok) =>
                parsed[1] = SelectSeq(JSONParse(m[1]).elems,
                                      LAMBDA f : f.kind = "obj" /\ \A p \in MandatoryFields :
                                                     Truthy(f, p))

\* the findings of a text that is prose, one well-formed array of complete
\* findings, prose: <<es>> when the text has that shape for the given prose
ArrayBetween(text, pre, post) ==
    IF Len(text) < Len(pre) + Len(post) + 2 THEN <<>>
    ELSE IF SubSeq(text, 1, Len(pre)) # pre THEN <<>>
    ELSE IF SubSeq(text, Len(text) - Len(post) + 1, Len(text)) # post THEN <<>>
    ELSE LET r == JSONParse(SubSeq(text, Len(pre) + 1, Len(text) - Len(post)))
         IN  IF r.ok /\ r.val.kind = "arr"
                /\ \A k \in Indices(r.elems) : r.elems[k] \in {GoodA, GoodB, GoodC}
             THEN <<r.elems>> ELSE <<>>

\* C11 (as stated): for a text that is prose (brackets allowed in it), one
\* well-formed array of complete findings, prose, parseFindings returns that
\* array's findings; for a text with no '[' ... ']' substring, or whose
\* substring does not parse to an array, it returns no finding.
C11_ToleratesSurroundingProse ==
    (parsed # <<>>) =>
        /\ \A pre \in BracketedProse, post \in BracketedProse :
              ArrayBetween(responseText, pre, post) # <<>> =>
                  parsed[1] = ArrayBetween(responseText, pre, post)[1]
        /\ (JsonMatch(responseText) = <<>> => parsed[1] = <<>>)
        /\ (JsonMatch(responseText) # <<>>
              /\ ~(JSONParse(JsonMatch(responseText)[1]).ok
                    /\ JSONParse(JsonMatch(responseText)[1]).val.kind = "arr")
              => parsed[1] = <<>>)

\* the texts of the text-typed blocks of a response, in their order
TextsOf(blocks) ==
    LET texts == SelectSeq(blocks, LAMBDA b : b.type = "text")
    IN  [i \in Indices(texts) |-> texts[i].text]

\* the variants whose vendor response is a list of blocks or parts
MultiPart == {"Anthropic", "Google"}

ReturnedResponse == rpc = "returned" /\ result.kind = "response"

\* C26 (as stated): on a successful attempt of a variant whose vendor response
\* can hold several blocks or parts, the returned text is the newline-joined
\* concatenation of exactly the text-typed blocks of the response, in their
\* order: a non-text block contributes nothing, no text block is left out.
C26_TextIsJoinedTextBlocks ==
    (ReturnedResponse /\ variant \in MultiPart) =>
        result.text = TextsOf(Last(trace).resp.blocks)

\* what holds for the Anthropic adapter
C26_AnthropicJoinsTextBlocks ==
    (ReturnedResponse /\ variant = "Anthropic") =>
        result.text = TextsOf(Last(trace).resp.blocks)

\* the Google adapter returns the text of the first part alone
C26_GoogleFirstPartOnly ==
    /\ ReturnedResponse /\ variant = "Google"
    /\ Len(Last(trace).resp.blocks) = 3
    /\ result.text = <<Last(trace).resp.blocks[1].text>>

(***************************************************************************)
(* Properties of the pure functions                                        *)
(***************************************************************************)
Called(fn) == call.fn = fn /\ ret # <<>>

\* CRITICAL > HIGH > MEDIUM > LOW
Rank(sev) ==
    CASE sev = "CRITICAL" -> 4
      [] sev = "HIGH"     -> 3
      [] sev = "MEDIUM"   -> 2
      [] sev = "LOW"      -> 1
      [] OTHER            -> 0

\* C12 (as stated): for a threshold that validateConfig accepts, in the letter
\* case it accepts it, filterBySeverity keeps exactly the findings whose
\* severity is one of the four levels and ranks at or above the threshold's
\* level, in their order.
C12_KeepsAtOrAboveThreshold ==
    (Called("filterBySeverity") /\ validateConfig(call.cfg) = "") =>
        ret[1] = SelectSeq(call.findings,
                           LAMBDA f : /\ Rank(f.severity) > 0
                                      /\ Rank(f.severity) >=
                                           Rank(ToUpperCase(call.cfg.severityThreshold)))

\* the paths that a pattern of either list matches (\.env\. and secrets;
\* package-lock\.json$, dist\/ and \.min\.js$)
SensitivePaths == {".env.production", "dist/secrets.min.js"}
GenericPaths == {"package-lock.json", "dist/secrets.min.js"}

\* C13: filterFiles returns, in their order, exactly the paths that match
\* neither pattern list; the warning lists exactly the paths matching a
\* sensitive pattern, those that also match a generic pattern included, and
\* no path that matches generic patterns only.
C13_SensitiveBeforeGeneric ==
    Called("filterFiles") =>
        /\ ret[1].filteredFiles =
              SelectSeq(call.files, LAMBDA f : f \notin SensitivePaths \cup GenericPaths)
        /\ ret[1].sensitiveFiles = SelectSeq(call.files, LAMBDA f : f \in SensitivePaths)
        /\ \A i \in Indices(ret[1].sensitiveFiles) :
              ret[1].sensitiveFiles[i] \notin GenericPaths \ SensitivePaths

\* a change set with a path of each kind, one of them matching both lists
C13_Witness ==
    /\ Called("filterFiles")
    /\ call.files = <<"dist/secrets.min.js", "package-lock.json", "b.js">>
    /\ ret[1].sensitiveFiles = <<"dist/secrets.min.js">>
    /\ ret[1].filteredFiles = <<"b.js">>

\* the model a calculateCost call prices, and the entry it resolves to
PricedModel == IF call.modelName = <<>> THEN call.thisModel ELSE call.modelName

ResolvedPrices == AdapterGetModelPricing(call.variant, PricedModel).prices

\* a counter of the call's usage, absent counted as zero
Counter(k) == IF k \in call.usage.has THEN call.usage[k] ELSE 0

\* C14: calculateCost of every adapter returns input_tokens * input rate +
\* output_tokens * output rate, plus the two cache terms where the resolved
\* entry defines the cache rates, absent counters counting as zero.  Costs are
\* in units of 10^-8 dollars: Sonnet rates with usage {1000, 500, 200, 100}
\* give 0.01173, and 0.0105 without the cache counters.
C14_CostIsSumOfRatedCounters ==
    Called("calculateCost") =>
        LET p == ResolvedPrices
        IN  /\ ret[1] = Counter("input_tokens") * p.input
                        + Counter("output_tokens") * p.output
                        + (IF p.cache_write # <<>>
                           THEN Counter("cache_creation_input_tokens") * p.cache_write[1]
                           ELSE 0)
                        + (IF p.cache_read # <<>>
                           THEN Counter("cache_read_input_tokens") * p.cache_read[1]
                           ELSE 0)
            /\ (p = Price(300, 1500, <<600>>, <<30>>)
                  /\ call.usage = MkUsage(<<1000>>, <<500>>, <<200>>, <<100>>)
                  => ret[1] = 1173000)
            /\ (p = Price(300, 1500, <<600>>, <<30>>)
                  /\ call.usage = MkUsage(<<1000>>, <<500>>, <<>>, <<>>)
                  => ret[1] = 1050000)

\* the Anthropic adapter's own model, all four counters present
C14_Witness ==
    /\ Called("calculateCost")
    /\ call.variant = "Anthropic" /\ call.modelName = <<>>
    /\ call.usage = MkUsage(<<1000>>, <<500>>, <<200>>, <<100>>)
    /\ ret[1] = 1173000

\* usage u with counter k set to c
Raise(u, k, c) == [u EXCEPT !.has = @ \cup {k}, ![k] = c]

\* C15: for every adapter and model name, raising one usage counter (from
\* absent or from a smaller value) with the others fixed never lowers the
\* cost calculateCost returns.
C15_CostMonotoneInEachCounter ==
    Called("calculateCost") =>
        \A n \in 1..4 :
            \A c \in CounterChoices(UsageKeys[n]) :
                (c # <<>> /\ c[1] >= Counter(UsageKeys[n])) =>
                    AdapterCalculateCost(call.variant, call.thisModel,
                                         Raise(call.usage, UsageKeys[n], c[1]),
                                         call.modelName) >= ret[1]

\* a usage without cache counters whose cost rises when cache reads appear
C15_Witness ==
    /\ Called("calculateCost")
    /\ call.variant = "Anthropic"
    /\ call.modelName = <<"claude", "-", "opus", "-5">>
    /\ call.usage = MkUsage(<<2000>>, <<500>>, <<>>, <<>>)
    /\ AdapterCalculateCost(call.variant, call.thisModel,
                            Raise(call.usage, "cache_read_input_tokens", 100),
                            call.modelName) > ret[1]

\* the name a getModelPricing call looks up, and whether it is a table key
LookedUp == LookupName(call.variant, call.modelName)

InTable == LookedUp \in TableKeys(call.variant)

\* no family rule's substring occurs in the name
NoFamily ==
    \A i \in Indices(FamilyRules(call.variant)) :
        ~Includes(LookedUp, FamilyRules(call.variant)[i].sub)

\* C16 (as stated): for a name that is no table key and matches no family
\* rule, getModelPricing of each adapter returns an entry of its table and
\* logs a warning, and no entry of that table has a higher input or output
\* rate than the one returned.
C16_FallbackIsMostExpensive ==
    (Called("getModelPricing") /\ ~InTable /\ NoFamily) =>
        /\ ret[1].warned
        /\ ret[1].key \in TableKeys(call.variant)
        /\ ret[1].prices = PRICING_TABLE(call.variant, ret[1].key)[1]
        /\ \A k \in TableKeys(call.variant) :
              /\ PRICING_TABLE(call.variant, k)[1].input <= ret[1].prices.input
              /\ PRICING_TABLE(call.variant, k)[1].output <= ret[1].prices.output

FamilyOf(providerName) ==
    CASE providerName \in {"anthropic", "claude", "ANTHROPIC", "Claude"} -> "anthropic"
      [] providerName \in {"openai", "gpt", "OpenAI", "GPT"}             -> "openai"
      [] providerName \in {"google", "gemini", "Google", "Gemini"}       -> "google"
      [] OTHER -> ""

KeyGiven == call.apiKey \notin {"", Unset}

ProjectGiven == call.projectId \notin {"", Unset}

\* C18: with an empty or absent apiKey createProvider throws "API key is
\* required", whatever the provider name, the model and the projectId, the
\* unknown names and the Google family without projectId included; no adapter
\* is constructed.
C18_CredentialErrorFirst ==
    (Called("createProvider") /\ ~KeyGiven) =>
        /\ ~ret[1].ok
        /\ ret[1].error = "API key is required"
        /\ ret[1].variant = ""

\* no key, an unrecognized name and no projectId at once
C18_Witness ==
    /\ Called("createProvider")
    /\ call.apiKey = "" /\ call.providerName = "bogus" /\ call.projectId = ""
    /\ ret[1].error = "API key is required"

\* C19: with an apiKey, createProvider throws in exactly two cases: "Unknown
\* provider: <providerName>", with the supported providers listed, when the
\* name is in no family in any letter case; and "Google provider requires
\* projectId option" when the name is of the Google family and projectId is
\* missing or empty.  Neither constructs an adapter; every other call does.
C19_TwoConfigurationErrors ==
    (Called("createProvider") /\ KeyGiven) =>
        LET unknown == FamilyOf(call.providerName) = ""
            noProject == FamilyOf(call.providerName) = "google" /\ ~ProjectGiven
        IN  /\ unknown =>
                  /\ ~ret[1].ok /\ ret[1].variant = ""
                  /\ ret[1].error = "Unknown provider"
                  /\ ret[1].name = call.providerName
                  /\ ret[1].supported = <<"anthropic", "openai", "google">>
            /\ noProject =>
                  /\ ~ret[1].ok /\ ret[1].variant = ""
                  /\ ret[1].error = "Google provider requires projectId option"
            /\ (~unknown /\ ~noProject) => ret[1].ok

\* the Google alias in mixed case without a projectId
C19_Witness ==
    /\ Called("createProvider")
    /\ call.providerName = "Gemini" /\ call.apiKey = "test-key-0000000001"
    /\ call.projectId = Unset
    /\ ret[1].error = "Google provider requires projectId option"

\* C20: with an apiKey (and a projectId for the Google family) createProvider
\* returns the Anthropic adapter for anthropic / claude, the OpenAI adapter for
\* openai / gpt and the Google adapter for google / gemini in any letter case,
\* constructed with the model given or, when none is given, with the default
\* getDefaultModels lists for that provider; getSupportedProviders returns
\* anthropic, openai, google in that order.
C20_AdapterAndModelPerFamily ==
    /\ (Called("createProvider") /\ KeyGiven /\ FamilyOf(call.providerName) # ""
          /\ (FamilyOf(call.providerName) = "google" => ProjectGiven)) =>
            /\ ret[1].ok
            /\ ret[1].variant = (CASE FamilyOf(call.providerName) = "anthropic" -> "Anthropic"
                                   [] FamilyOf(call.providerName) = "openai"    -> "OpenAI"
                                   [] FamilyOf(call.providerName) = "google"    -> "Google")
            /\ ret[1].model = (IF call.model # <<>> THEN call.model
                               ELSE getDefaultModels(FamilyOf(call.providerName)))
    /\ (Called("getSupportedProviders") => ret[1] = <<"anthropic", "openai", "google">>)

\* an upper-case alias and no model
C20_Witness ==
    /\ Called("createProvider")
    /\ call.providerName = "GPT" /\ call.model = <<>>
    /\ ret[1].ok /\ ret[1].variant = "OpenAI"
    /\ ret[1].model = <<"gpt", "-4", "-turbo", "-preview">>

\* ---- the request and the sensitive files --------------------------------
\* the two diffs differ at most in the hunks of sensitive files
SameOutsideSensitive ==
    \A i \in Indices(call.files) :
        call.files[i] \notin SensitivePaths =>
            call.first.diff[i] = call.second.diff[i]

\* C30 (as stated): the request sent to the provider does not depend on the
\* content of sensitive files: two runs with the same changed files whose
\* diffs differ only in hunks of sensitive files send identical system and
\* user prompts, and no sensitive path is in the prompt's file list.
C30_RequestIndependentOfSensitiveFiles ==
    (Called("callLLM") /\ SameOutsideSensitive) =>
        /\ ret[1].first = ret[1].second
        /\ \A k \in Indices(ret[1].first) :
              \A i \in Indices(ret[1].first[k].userPrompt.changedFiles) :
                  ret[1].first[k].userPrompt.changedFiles[i] \notin SensitivePaths

\* what holds: the system prompt and the prompt's file list are the same in
\* both runs, and the file list names no sensitive path
C30_FileListHasNoSensitivePath ==
    Called("callLLM") =>
        \A k \in Indices(ret[1].first) :
            /\ ret[1].second # <<>>
            /\ ret[1].first[k].systemPrompt = ret[1].second[k].systemPrompt
            /\ ret[1].first[k].userPrompt.changedFiles
                  = ret[1].second[k].userPrompt.changedFiles
            /\ \A i \in Indices(ret[1].first[k].userPrompt.changedFiles) :
                  ret[1].first[k].userPrompt.changedFiles[i] \notin SensitivePaths

\* the hunk of .env.production is in the user prompt
C30_SensitiveHunkInPrompt ==
    /\ Called("callLLM") /\ SameOutsideSensitive
    /\ ret[1].first # <<>>
    /\ \E i \in Indices(call.files) :
          /\ call.files[i] = ".env.production"
          /\ ret[1].first[1].userPrompt.codeChanges[i].hunk = "+one"
          /\ ret[1].second[1].userPrompt.codeChanges[i].hunk = "+two"

\* ---- the ':' suffix ----------------------------------------------------
\* the name looked up is table key m of variant v followed by ':' and a suffix
IsSuffixed(name, v, m) ==
    m \in TableKeys(v) /\ \E sfx \in Suffixes : name = m \o <<":">> \o sfx

\* C27 (as stated): pricing lookup ignores a trailing ':'-delimited suffix:
\* for every adapter, and for the orchestrator's own lookup, every model id m
\* of the pricing table and every suffix s, the rates resolved for "m:s" are
\* the rates resolved for m.
C27_SuffixIgnored ==
    /\ Called("getModelPricing") =>
          \A m \in TableKeys(call.variant) :
              IsSuffixed(call.modelName, call.variant, m) =>
                  ret[1].prices = PRICING_TABLE(call.variant, m)[1]
    /\ Called("review.getModelPricing") =>
          \A v \in Variants : \A m \in TableKeys(v) :
              IsSuffixed(call.modelName, v, m) => ret[1] = PRICING_TABLE(v, m)[1]

\* what holds: the Anthropic adapter and the orchestrator cut the name at the
\* ':'; the OpenAI and Google adapters look the whole name up, miss the table
\* and give the rates of m only when the family rule that matches first is
\* the one of m
C27_SuffixIgnoredWhereCut ==
    /\ (Called("getModelPricing") /\ call.variant = "Anthropic") =>
          \A m \in TableKeys(call.variant) :
              IsSuffixed(call.modelName, call.variant, m) =>
                  /\ ret[1].prices = PRICING_TABLE(call.variant, m)[1]
                  /\ ~ret[1].warned
    /\ (Called("getModelPricing") /\ call.variant # "Anthropic") =>
          \A m \in TableKeys(call.variant) :
              IsSuffixed(call.modelName, call.variant, m) => ret[1].warned
    /\ Called("review.getModelPricing") =>
          \A v \in Variants : \A m \in TableKeys(v) :
              IsSuffixed(call.modelName, v, m) => ret[1] = PRICING_TABLE(v, m)[1]

C27_GoogleSuffixChangesRates ==
    /\ Called("getModelPricing") /\ call.variant = "Google"
    /\ call.modelName = <<"gemini", "-", "pro", ":", "flash">>
    /\ ret[1].prices = Gemini15FlashPrice

\* ---- provider objects ---------------------------------------------------
Constructed == Called("new") /\ call.obj # <<>>

LogOf(method) == SelectSeq(ret[1].log, LAMBDA e : e.method = method)

\* C24: the capability flags are fixed per variant: supportsPromptCaching and
\* supportsExtendedThinking both return true on the Anthropic adapter and
\* false on the OpenAI adapter, the Google adapter and a class that overrides
\* nothing, whatever the constructor arguments were and whatever review and
\* calculateCost calls came before.
C24_CapabilityFlagsFixedPerVariant ==
    Constructed =>
        \A i \in Indices(ret[1].log) :
            ret[1].log[i].method \in {"supportsPromptCaching", "supportsExtendedThinking"} =>
                /\ ~ret[1].log[i].outcome.threw
                /\ ret[1].log[i].outcome.value = <<call.class = "Anthropic">>

C24_Witness ==
    /\ Constructed /\ call.class = "Anthropic" /\ call.model = <<"test", "-", "model">>
    /\ Len(ret[1].log) = 3
    /\ ret[1].log[1].method = "review" /\ ~ret[1].log[1].outcome.threw
    /\ ret[1].log[2].method = "calculateCost"
    /\ ret[1].log[3].method = "supportsPromptCaching"
    /\ ret[1].log[3].outcome.value = <<TRUE>>

UnimplementedMessage ==
    [review        |-> "review() must be implemented by provider",
     calculateCost |-> "calculateCost() must be implemented by provider",
     getName       |-> "getName() must be implemented by provider"]

\* C25: constructing the abstract base directly always fails at construction
\* time; on a class that overrides nothing, review, calculateCost and getName
\* each fail with an error naming the operation invoked, and return no value.
C25_AbstractBaseUnusable ==
    Called("new") =>
        /\ call.class = "BaseLLMProvider" =>
              /\ ret[1].new.threw /\ call.obj = <<>> /\ ret[1].log = <<>>
              /\ ret[1].new.message =
                    "BaseLLMProvider is abstract and cannot be instantiated directly"
        /\ call.class = "TestProvider" =>
              /\ ~ret[1].new.threw
              /\ \A i \in Indices(ret[1].log) :
                    ret[1].log[i].method \in DOMAIN UnimplementedMessage =>
                        /\ ret[1].log[i].outcome.threw
                        /\ ret[1].log[i].outcome.value = <<>>
                        /\ ret[1].log[i].outcome.message =
                              UnimplementedMessage[ret[1].log[i].method]

C25_Witness ==
    /\ Called("new") /\ call.class = "TestProvider"
    /\ Len(ret[1].log) = 3
    /\ ret[1].log[1].method = "review" /\ ret[1].log[1].outcome.threw
    /\ ret[1].log[2].method = "calculateCost" /\ ret[1].log[2].outcome.threw
    /\ ret[1].log[3].method = "getName" /\ ret[1].log[3].outcome.threw

C25_WitnessBase ==
    Called("new") /\ call.class = "BaseLLMProvider" /\ ret[1].new.threw

\* ---- validateConfig and the factory ------------------------------------
Validated == Called("validateConfig") /\ ret[1].message = ""

InRange(num, low, high) == ~IsNaN(num) /\ low <= num[1] /\ num[1] <= high

\* C21 (as stated): whenever Validate succeeds, whatever the raw environment
\* values were (non-numeric strings included), the PR number is a positive
\* integer, maxTokens is an integer between 1000 and 200000 and
\* thinkingBudget is an integer between 0 and 100000.
C21_ValidatedNumbersInBounds ==
    Validated =>
        /\ ~IsNaN(call.cfg.prNumber) /\ call.cfg.prNumber[1] > 0
        /\ InRange(call.cfg.maxTokens, 1000, 200000)
        /\ InRange(call.cfg.thinkingBudget, 0, 100000)

\* what does hold: a PR number or a budget that is a number out of bounds is
\* rejected, and every accepted PR number is a positive integer
C21_NumericViolationsRejected ==
    Validated =>
        /\ ~IsNaN(call.cfg.prNumber) /\ call.cfg.prNumber[1] > 0
        /\ IsNaN(call.cfg.maxTokens) \/ InRange(call.cfg.maxTokens, 1000, 200000)
        /\ IsNaN(call.cfg.thinkingBudget) \/ InRange(call.cfg.thinkingBudget, 0, 100000)

C21_NaNBudgetAccepted ==
    /\ Validated
    /\ call.env.MAX_TOKENS = "abc" /\ IsNaN(call.cfg.maxTokens)

\* C28: every configuration that passes Validate lets createProvider construct
\* an adapter: the factory raises none of its three errors, and the adapter
\* is the one of the family Validate accepted.
C28_ValidatedConfigConstructsAdapter ==
    Validated =>
        /\ ret[1].made # <<>>
        /\ ret[1].made[1].ok
        /\ ret[1].made[1].error = ""
        /\ ret[1].made[1].variant =
             (CASE call.env.LLM_PROVIDER \in {"google", "Google"} -> "Google"
                [] call.env.LLM_PROVIDER = "OpenAI" -> "OpenAI"
                [] OTHER -> "Anthropic")
        /\ (ret[1].made[1].variant = "Google" => call.env.GOOGLE_PROJECT_ID = "my-project-1")

C28_Witness ==
    /\ Validated
    /\ call.env.LLM_PROVIDER = "Google"
    /\ ret[1].made # <<>> /\ ret[1].made[1].ok /\ ret[1].made[1].variant = "Google"

(***************************************************************************)
(* Properties of main()                                                    *)
(***************************************************************************)
StageOrder == <<"Validate", "Fetch", "Filter", "Invoke", "Parse", "PostProcess">>

IsPrefix(s, t) == Len(s) <= Len(t) /\ \A i \in Indices(s) : s[i] = t[i]

RunEnded == pc = "done"

RunFailed == run.error # NoErr

WritesOf(kind) == SelectSeq(run.writes, LAMBDA w : w.kind = kind)

AllOutputKeys ==
    {"completed", "findings_count", "critical_count", "high_count", "cost_estimate"}

MarkerIds(comments) == {i \in Indices(comments) : comments[i].marker}

LiveSuccess == RunEnded /\ run.terminal = "Success" /\ ~CONFIG.dryRun

\* C4: the stages of a run occur in the order Validate, Fetch, Filter, Invoke,
\* Parse, PostProcess, none of them twice; review() is called at most once,
\* and a provider is constructed or called only after Validate and Fetch have
\* succeeded and Filter has left at least one reviewable file; a run that has
\* failed goes nowhere but to its catch and the Error terminal state, and one
\* that failed in Validate or Fetch has constructed and called no provider.
C4_StagesInOrderReviewAtMostOnce ==
    /\ IsPrefix(run.stages, StageOrder)
    /\ run.reviewCalls <= 1
    /\ (rpc # "idle" => pc = "invoke" /\ run.reviewCalls = 1)
    /\ (run.reviewCalls = 1 \/ run.provider # "" =>
            /\ IsPrefix(<<"Validate", "Fetch", "Filter">>, run.stages)
            /\ validateConfig(CONFIG) = ""
            /\ run.changedFiles \in ChangedFileLists
            /\ Len(run.reviewableFiles) >= 1)
    /\ (RunFailed => pc \in {"catch", "done"})
    /\ (RunFailed /\ RunEnded => run.terminal = "Error")
    /\ (RunFailed /\ Last(run.stages) \in {"Validate", "Fetch"} =>
            run.provider = "" /\ run.reviewCalls = 0 /\ rpc = "idle")

\* a successful run that went through all six stages with one review() call
C4_Witness ==
    /\ RunEnded /\ run.terminal = "Success"
    /\ run.stages = StageOrder
    /\ run.reviewCalls = 1
    /\ run.provider = "OpenAI"

\* C5: once Filter has left no reviewable file, the run constructs and calls
\* no provider, runs neither Parse nor PostProcess and computes no cost, and
\* ends with the one record completed=true, findings_count=0,
\* critical_count=0, high_count=0 and a zero exit, whether the no-files
\* comment was posted or its posting failed.
C5_NoFilesShortCircuit ==
    (Len(run.stages) >= 3 /\ run.reviewableFiles = <<>>) =>
        /\ pc \in {"nofiles", "done"}
        /\ run.stages = <<"Validate", "Fetch", "Filter">>
        /\ run.provider = "" /\ run.reviewCalls = 0 /\ rpc = "idle"
        /\ run.allFindings = <<>> /\ run.costEstimate = <<>>
        /\ (RunEnded =>
              /\ run.terminal = "NoFiles" /\ run.exit = "0"
              /\ Len(WritesOf("nofiles")) = 1
              /\ Len(run.outputs) = 1
              /\ run.outputs[1].completed
              /\ {"completed", "findings_count", "critical_count", "high_count"}
                     \subseteq run.outputs[1].keys
              /\ run.outputs[1].findings_count = 0
              /\ run.outputs[1].critical_count = 0
              /\ run.outputs[1].high_count = 0)

\* a no-files run whose comment could not be posted
C5_Witness ==
    /\ RunEnded /\ run.terminal = "NoFiles"
    /\ run.reviewableFiles = <<>> /\ Len(run.changedFiles) = 3
    /\ ~run.writes[1].ok
    /\ run.outputs[1].completed

\* C6 (as stated): a run that has ended has emitted exactly one record, and the
\* record carries completed, findings_count, critical_count, high_count and
\* cost_estimate.
C6_OneFullRecordPerRun ==
    RunEnded => Len(run.outputs) = 1 /\ run.outputs[1].keys = AllOutputKeys

\* what holds of the failed run besides the count of error comments
FailureHandled ==
    /\ run.terminal = "Error"
    /\ Len(run.outputs) = 1
    /\ "completed" \in run.outputs[1].keys /\ ~run.outputs[1].completed
    /\ (run.exit = "1" <=> CONFIG.failOnErrors)
    /\ run.exit \in {"0", "1"}
    /\ \A i \in Indices(run.writes) :
          run.writes[i].kind = "error" =>
              /\ run.writes[i].op = "createComment"
              /\ run.writes[i].msg.kind = run.error.kind
              /\ run.writes[i].msg.label = run.error.label
              /\ ~HasSecret(run.writes[i].msg.text)

\* C7 (as stated): a run that failed has made exactly one attempt to post the
\* error comment, with the redacted message; it has emitted completed=false
\* and never completed=true, and it exits non-zero iff failOnErrors is set.
C7_ExactlyOneErrorPost ==
    (RunFailed /\ RunEnded) => FailureHandled /\ Len(WritesOf("error")) = 1

\* C7 (amended): as stated, except that the one attempt to post is made only
\* when the repository identifier is set; when it is unset no attempt is made.
C7_OneErrorPostWhenRepositoryKnown ==
    /\ (RunFailed /\ RunEnded) =>
          /\ FailureHandled
          /\ Len(WritesOf("error")) = (IF CONFIG.repository = Unset THEN 0 ELSE 1)
    /\ (RunEnded /\ run.terminal = "Error" => RunFailed)

\* a provider failure with the key in its message, the error comment not
\* posted, and the exit forced by failOnErrors
C7_Witness ==
    /\ RunEnded /\ run.terminal = "Error"
    /\ run.error.kind = "provider" /\ HasSecret(run.error.text)
    /\ run.error.n = 3
    /\ Len(WritesOf("error")) = 1 /\ ~WritesOf("error")[1].ok
    /\ run.exit = "1"

\* C8 (as stated): in a dry run nothing is written to the pull request.
C8_DryRunWritesNothing ==
    CONFIG.dryRun => \A i \in Indices(run.writes) : ~run.writes[i].ok

Occurrences(seq, x) == Cardinality({i \in Indices(seq) : seq[i] = x})

FileCount(findings) == Cardinality({findings[i].file : i \in Indices(findings)})

InPosting == pc \in {"postFile", "fallback"}

\* the loop over the files has run to its end
PostingDone ==
    /\ ~CONFIG.dryRun /\ run.findings # <<>>
    /\ pc \in {"listComments", "upsert"} \/ LiveSuccess

\* C23 without the grouping: in live mode one inline review request is made per file; when the
\* request for a file fails, each finding of that file is sent as an issue
\* comment instead, and only then; the failure of an inline request or of a
\* fallback comment never raises, so the remaining files are processed and
\* the run goes on to the summary comment, which a successful run has posted;
\* no finding is delivered more than once and the number of posted comments
\* never exceeds the number of findings.
C23_InlineFailureFallsBack ==
    /\ [](/\ run.posted = Len(run.delivered)
          /\ run.posted <= Len(run.findings)
          /\ \A i \in Indices(run.delivered) :
                Occurrences(run.delivered, run.delivered[i])
                    <= Occurrences(run.findings, run.delivered[i])
          /\ Len(WritesOf("inline")) <= FileCount(run.findings)
          /\ PostingDone =>
                /\ Len(WritesOf("inline")) = FileCount(run.findings)
                /\ \A i \in Indices(run.writes) :
                      run.writes[i].kind = "inline" =>
                        IF run.writes[i].ok
                        THEN i < Len(run.writes) => run.writes[i + 1].kind # "fallback"
                        ELSE \A j \in 1..run.writes[i].n :
                               /\ i + j <= Len(run.writes)
                               /\ run.writes[i + j].op = "createComment"
                               /\ run.writes[i + j].kind = "fallback"
          /\ (LiveSuccess /\ run.findings # <<>>) =>
                /\ Last(run.writes).kind = "summary" /\ Last(run.writes).ok
                /\ run.error = NoErr)
    /\ [][InPosting => (/\ pc' \in {"postFile", "fallback", "listComments"}
                        /\ run'.error = NoErr)]_vars

\* C23 (as stated): in live mode the findings are grouped by file and one
\* inline review request is made per file, whatever the files are named, and
\* the rest of the claim holds.
C23_GroupedAndPostedPerFile ==
    /\ C23_InlineFailureFallsBack
    /\ [](run.error.text # PushIsNotAFunction)

\* a run whose inline request for a.js failed: one of the two fallback
\* comments failed too, b.js was posted inline, and the run succeeded
C23_Witness ==
    /\ LiveSuccess
    /\ Len(run.findings) = 3
    /\ \E i \in Indices(run.writes) : run.writes[i].kind = "inline" /\ ~run.writes[i].ok
    /\ \E i \in Indices(run.writes) : run.writes[i].kind = "inline" /\ run.writes[i].ok
    /\ \E i \in Indices(run.writes) : run.writes[i].kind = "fallback" /\ ~run.writes[i].ok
    /\ run.posted = 2

\* ---- overlapping runs ---------------------------------------------------
AllRunsEnded == \A p \in Procs : pc[p] = "done"

\* C29 (as stated): when two live runs for the same pull request overlap, so
\* that their list-comments and create-or-update steps interleave in any
\* order, the pull request ends with at most one comment bearing the marker.
C29_OverlapSingleSummaryComment ==
    AllRunsEnded => Cardinality(MarkerIds(forge)) <= 1

\* what holds: a run creates a marker comment only when it listed none, so
\* the runs leave at most one each, and exactly the one they found when one
\* was there before either listed
C29_OneMarkerPerCreatingRun ==
    /\ Cardinality(MarkerIds(forge)) <= Cardinality(Procs)
    /\ Cardinality(MarkerIds(forge)) > 1 =>
          \A p \in Procs : run[p].existing = 0 /\ run[p].terminal = "Success"

\* both runs listed before either created: two marker comments
C29_TwoMarkerComments ==
    /\ AllRunsEnded
    /\ Cardinality(MarkerIds(forge)) = 2
    /\ \A p \in Procs : Last(run[p].writes).op = "createComment"

\* C22 (as stated): the cost estimate the orchestrator reports is the selected
\* adapter's calculateCost applied to the response's usage and to the model
\* name returned in the response, whatever the provider, the usage and the
\* name, names absent from the pricing tables included.
C22_CostIsAdapterCost ==
    run.costEstimate # <<>> =>
        run.costEstimate[1] =
            AdapterCalculateCost(run.provider, thisModel, run.response.usage,
                                 run.response.model)

\* the two figures do agree on the names the adapter's own table lists
C22_AgreeOnAdapterTable ==
    (run.costEstimate # <<>> /\ run.response.model \in TableKeys(run.provider)) =>
        run.costEstimate[1] =
            AdapterCalculateCost(run.provider, thisModel, run.response.usage,
                                 run.response.model)

(***************************************************************************)
(* The pure functions as a specification                                   *)
(***************************************************************************)
InitCalls == ReviewIdle /\ ParseIdle /\ MainIdle /\ CallIdle

NextCalls ==
    \/ CallFilterBySeverity
    \/ CallFilterFiles
    \/ CallCalculateCost
    \/ CallGetModelPricing
    \/ CallCreateProvider
    \/ CallGetSupportedProviders
    \/ CallValidateConfig
    \/ CallNewProvider
    \/ CallLLMTwice
    \/ CallOrchestratorGetModelPricing
    \/ CallProviderMethod

SpecCalls == InitCalls /\ [][NextCalls]_vars

====
